---- MODULE Spec2Model ----
(***************************************************************************)
(* Model of the bulk dataset seeding pipeline of src/database/populate.py: *)
(* CSVDatabaseSeeder (is_db_populated, _preprocess_csv, _seed_user_groups, *)
(* _get_or_create_bulk, _bulk_insert, _prepare_reference_data,             *)
(* _prepare_movies_data, _prepare_associations, seed) and its two callers, *)
(* main() and the seed_database fixture of tests/conftest.py; and of the   *)
(* account endpoints of src/routes/accounts.py.                            *)
(*                                                                         *)
(* Strings are sequences of one-character atoms; a few atoms stand for a   *)
(* whole word without whitespace or comma ("Unknown", "nan", the dates).   *)
(* Every awaited session call (execute, flush, commit, rollback) is one    *)
(* step and may raise instead of taking effect.                            *)
(***************************************************************************)
EXTENDS Integers, Sequences, FiniteSets, TLC

VARIABLES
    csv,            \* the rows of the input file (rewritten by _preprocess_csv)
    db,             \* committed content of every collection
    sess,           \* content as seen through the run's session (db + uncommitted)
    inTx,           \* db_session.in_transaction()
    db0,            \* history: committed content before the first run
    uniq,           \* whether the schema declares the unique keys as constraints
    hashOrder,      \* iteration order of this process's Python sets
    race,           \* two concurrent invocations: the store and each one's state
    run,            \* number of invocations of the entry point so far
    entry,          \* entry point of the current run: "main" or "seed_database"
    pc,             \* position of the current run
    mainOutcome,    \* what the caller of the entry point observed last
    seedOutcome,    \* how seed() ended in the current run
    committedRuns,  \* history: number of runs whose seed() committed
    log,            \* storage operations issued by the current run, in order
    failure,        \* history: why the current run raised: "none", "fault" (a
                    \* storage operation failed), "constraint" (an insert broke
                    \* a declared unique key), "input" (the file), "lookup"
    seeded,         \* history: the DataFrame, the movie_ids and the store of
                    \* the last commit
    data,           \* the DataFrame returned by _preprocess_csv
    maps,           \* country_map, genre_map, actor_map, language_map
    movie_ids,      \* identifiers returned by the movie insert
    assoc,          \* movie_genres_data, movie_actors_data, movie_languages_data
    bk,             \* which of the three association sets _bulk_insert is writing
    bi,             \* chunk_index of _bulk_insert
    rpc,            \* position inside _get_or_create_bulk
    r_model,        \* its parameter model
    items,          \* its parameter items
    existing_dict,  \* its local existing_dict
    new_items,      \* its local new_items
    r_i,            \* its loop variable i
    r_before,       \* history: rows of r_model seen by the session at the call
    adb,            \* accounts: committed groups, users, tokens and profiles
    asess,          \* accounts: content as seen through the request's session
    apc,            \* accounts: position of the request being served
    endpoint,       \* the endpoint serving the request
    user_data,      \* the email of the request being served
    req,            \* the other fields of the request being served
    issued,         \* number of token strings generated so far
    token_record,   \* id of the token row the request has selected (0: none)
    status_code,    \* status of the response (0 while the request is served)
    detail,         \* which error the response reports
    body,           \* fields of the response body the claims read
    sent,           \* emails accepted by the mail server and avatars uploaded, in order
    requests,       \* number of requests received so far
    new_user,       \* id of the user the request has flushed (0: none)
    afail,          \* history: the first storage call of the request that raised
    reqStart        \* history: adb and sent when the request was received

accountVars == <<adb, asess, apc, endpoint, user_data, req, issued, token_record,
                 status_code, detail, body, sent, requests, new_user, afail, reqStart>>

pipelineVars == <<csv, db, sess, inTx, db0, uniq, hashOrder, race, run, entry, pc, mainOutcome,
                  seedOutcome, committedRuns, log, failure, seeded, data, maps, movie_ids,
                  assoc, bk, bi,
                  rpc, r_model, items, existing_dict, new_items, r_i, r_before>>

vars == <<pipelineVars, accountVars>>

seedVars == <<data, maps, movie_ids, assoc, bk, bi>>
resolverVars == <<rpc, r_model, items, existing_dict, new_items, r_i, r_before>>
constVars == <<db0, uniq, hashOrder, race>>

\* No concurrent invocations are being followed.
NoRace == [store |-> {}, proc |-> <<>>]

---------------------------------------------------------------------------
\* Bounds of the model.

\* populate.py sets CHUNK_SIZE = 1000; the model scales it down so that
\* lists of a few values cross chunk boundaries.
CHUNK_SIZE == 2
\* Longest list handed to _get_or_create_bulk by the resolver specification.
MaxItems == 5
\* Number of sequential invocations of the entry point.
MaxRuns == 2
\* Number of requests sent to the account endpoints.
MaxRequests == 3

---------------------------------------------------------------------------
\* Strings.

Space == " "
Nbsp == "~"
Comma == ","
Whitespace == {Space, Nbsp}

\* pandas' missing value, and the text astype(str) turns it into.
NaN == <<"NaN">>
NanText == <<"nan">>
Unknown == <<"Unknown">>

\* Character order used by sorted(): code point order, restricted to the
\* characters of the model's inputs.
Alphabet == <<Space, Comma, "A", "B", "C", "D", "S", "Unknown", "nan", Nbsp>>

CharRank(c) == CHOOSE i \in 1..Len(Alphabet) : Alphabet[i] = c

RECURSIVE StrLess(_, _)
StrLess(a, b) ==
    IF b = <<>> THEN FALSE
    ELSE IF a = <<>> THEN TRUE
    ELSE IF Head(a) # Head(b) THEN CharRank(Head(a)) < CharRank(Head(b))
    ELSE StrLess(Tail(a), Tail(b))

\* str.replace(r'\s+', '', regex=True)
RemoveWs(s) == SelectSeq(s, LAMBDA c : c \notin Whitespace)

\* str.replace('\u00A0', '', regex=True)
RemoveNbsp(s) == SelectSeq(s, LAMBDA c : c # Nbsp)

RECURSIVE LStrip(_)
LStrip(s) == IF s # <<>> /\ Head(s) \in Whitespace THEN LStrip(Tail(s)) ELSE s

RECURSIVE RStrip(_)
RStrip(s) ==
    IF s # <<>> /\ s[Len(s)] \in Whitespace
    THEN RStrip(SubSeq(s, 1, Len(s) - 1)) ELSE s

\* str.strip()
Strip(s) == RStrip(LStrip(s))

\* str.split(','): the pieces between commas, empty pieces included.
RECURSIVE Split(_)
Split(s) ==
    IF \A i \in 1..Len(s) : s[i] # Comma THEN <<s>>
    ELSE LET k == CHOOSE i \in 1..Len(s) :
                      s[i] = Comma /\ \A j \in 1..(i - 1) : s[j] # Comma
         IN  <<SubSeq(s, 1, k - 1)>> \o Split(SubSeq(s, k + 1, Len(s)))

\* ','.join(tokens)
RECURSIVE Join(_)
Join(toks) ==
    IF toks = <<>> THEN <<>>
    ELSE IF Len(toks) = 1 THEN toks[1]
    ELSE toks[1] \o <<Comma>> \o Join(Tail(toks))

SeqRange(s) == {s[i] : i \in 1..Len(s)}

\* sorted(S) for a set of strings.
RECURSIVE Sorted(_)
Sorted(S) ==
    IF S = {} THEN <<>>
    ELSE LET m == CHOOSE x \in S : \A y \in S \ {x} : StrLess(x, y)
         IN  <<m>> \o Sorted(S \ {m})

RECURSIVE Reverse(_)
Reverse(s) == IF s = <<>> THEN <<>> ELSE Reverse(Tail(s)) \o <<Head(s)>>

\* list(S) for a Python set S: the order is the set's iteration order.
ListOfSet(S) == IF hashOrder = "asc" THEN Sorted(S) ELSE Reverse(Sorted(S))

\* Chunk with a slice that stops one element short.
ChunkShort(x, i) ==
    SubSeq(x, i + 1, IF i + CHUNK_SIZE - 1 < Len(x) THEN i + CHUNK_SIZE - 1 ELSE Len(x))

\* x[i : i + CHUNK_SIZE] with a 0-based i.
Chunk(x, i) ==
    SubSeq(x, i + 1, IF i + CHUNK_SIZE < Len(x) THEN i + CHUNK_SIZE ELSE Len(x))

---------------------------------------------------------------------------
\* Row Normalizer: CSVDatabaseSeeder._preprocess_csv.

\* Atoms that spell a date in the format %Y-%m-%d.
DateAtoms == {"d1", "d2"}

\* drop_duplicates(subset=['names', 'date_x'], keep='first')
RECURSIVE DropDuplicates(_)
DropDuplicates(rows) ==
    IF rows = <<>> THEN <<>>
    ELSE LET init == SubSeq(rows, 1, Len(rows) - 1)
             last == rows[Len(rows)]
         IN  IF \E i \in 1..Len(init) :
                    init[i].names = last.names /\ init[i].date_x = last.date_x
             THEN DropDuplicates(init)
             ELSE DropDuplicates(init) \o <<last>>

\* fillna('Unknown').astype(str)
FillNa(s) == IF s = NaN THEN Unknown ELSE s

\* The crew column: whitespace removed, then the tokens deduplicated,
\* sorted and joined again unless the value is the placeholder.
CleanCrew(s) ==
    LET x == RemoveWs(FillNa(s))
    IN  IF x # Unknown THEN Join(Sorted(SeqRange(Split(x)))) ELSE x

\* astype(str).str.strip() of the date column.
DateText(s) == Strip(IF s = NaN THEN NanText ELSE s)

\* pd.to_datetime(..., format='%Y-%m-%d', errors='raise') accepts the text.
DateParses(s) == Len(DateText(s)) = 1 /\ DateText(s)[1] \in DateAtoms

CleanRow(r) ==
    [names     |-> r.names,
     date_x    |-> DateText(r.date_x)[1],
     country   |-> FillNa(r.country),
     genre     |-> RemoveNbsp(FillNa(r.genre)),
     crew      |-> CleanCrew(r.crew),
     orig_lang |-> RemoveWs(FillNa(r.orig_lang))]

PreprocessRaises(rows) ==
    \E i \in 1..Len(DropDuplicates(rows)) : ~DateParses(DropDuplicates(rows)[i].date_x)

\* The DataFrame _preprocess_csv returns.
Preprocess(rows) ==
    LET d == DropDuplicates(rows) IN [i \in 1..Len(d) |-> CleanRow(d[i])]

\* data.to_csv followed by the next pd.read_csv: a date is written as its
\* text, an empty string is read back as a missing value.
CsvField(s) == IF s = <<>> THEN NaN ELSE s

CsvOfData(d) ==
    [i \in 1..Len(d) |->
        [names     |-> CsvField(d[i].names),
         date_x    |-> <<d[i].date_x>>,
         country   |-> CsvField(d[i].country),
         genre     |-> CsvField(d[i].genre),
         crew      |-> CsvField(d[i].crew),
         orig_lang |-> CsvField(d[i].orig_lang)]]

\* TokensOfField without the trimming of the pieces.
TokensOfFieldUntrimmed(s) == SeqRange(Split(s)) \ {<<>>}

\* {t.strip() for t in field.split(',') if t.strip()} over a column.
TokensOfField(s) == {Strip(t) : t \in SeqRange(Split(s))} \ {<<>>}

TokensOfColumn(d, col) == UNION {TokensOfField(d[i][col]) : i \in 1..Len(d)}

\* list(data['country'].unique()): distinct values in order of appearance.
RECURSIVE UniqueInOrder(_)
UniqueInOrder(s) ==
    IF s = <<>> THEN <<>>
    ELSE LET init == SubSeq(s, 1, Len(s) - 1)
         IN  IF s[Len(s)] \in SeqRange(init) THEN UniqueInOrder(init)
             ELSE UniqueInOrder(init) \o <<s[Len(s)]>>

Countries(d) == UniqueInOrder([i \in 1..Len(d) |-> d[i].country])

---------------------------------------------------------------------------
\* The store behind the session.

RefTables == {"Country", "Genre", "Actor", "Language"}
AssocTables == {"MoviesGenres", "ActorsMovies", "MoviesLanguages"}
Tables == {"UserGroup", "Movie"} \cup RefTables \cup AssocTables

\* The members of UserGroupEnum.
UserGroupEnum == <<"user", "moderator", "admin">>

EmptyStore == [t \in Tables |-> {}]

\* The value a unique key of table t takes in the row or value record v.
UKey(t, v) ==
    IF t = "Movie" THEN <<v.name, v.date>>
    ELSE IF t \in AssocTables THEN <<v.movie_id, v.ref_id>>
    ELSE v.key

KeysUnique(t, rows) == \A a, b \in rows : UKey(t, a) = UKey(t, b) => a = b

MaxId(rows) == IF rows = {} THEN 0 ELSE CHOOSE n \in {r.id : r \in rows} :
                                            \A r \in rows : r.id <= n

\* Whether the store accepts insert(t).values(vals): with the unique keys
\* declared, no key of vals may repeat or be held by a row of t already.
InsertAccepted(t, vals) ==
    uniq =>
        /\ \A i, j \in 1..Len(vals) : UKey(t, vals[i]) = UKey(t, vals[j]) => i = j
        /\ \A i \in 1..Len(vals) : \A r \in sess[t] : UKey(t, r) # UKey(t, vals[i])

\* The rows of t after insert(t).values(vals): identifiers are generated in
\* the order of vals.
Inserted(t, vals) ==
    sess[t] \cup {[id |-> MaxId(sess[t]) + i] @@ vals[i] : i \in 1..Len(vals)}

\* select(model).where(unique_field.in_(chunk)): the rows found.
SelectIn(t, chunk) == {r \in sess[t] : r.key \in SeqRange(chunk)}

\* One storage operation as recorded in the log.
Op(kind, t, arg) == [op |-> kind, table |-> t, arg |-> arg]

IsWrite(o) == o.op \in {"insert", "flush", "commit"}

---------------------------------------------------------------------------
\* Inputs.

Str(c) == <<c>>

\* The scenario of two movies sharing a genre.
DatasetScenario ==
    << [names |-> Str("I"), date_x |-> Str("d1"), country |-> Str("C"),
        genre |-> <<"A", Comma, "S">>, crew |-> <<"B">>, orig_lang |-> <<"D">>],
       [names |-> Str("U"), date_x |-> Str("d2"), country |-> Str("C"),
        genre |-> <<"A", Comma, "C">>, crew |-> <<"B", Comma, "A">>,
        orig_lang |-> <<Space, "D">>] >>

\* Missing values, padded dates, repeated tokens, a repeated row.
DatasetMessy ==
    << [names |-> Str("I"), date_x |-> <<Space, "d1">>, country |-> NaN,
        genre |-> <<"A", Comma, Space, "A">>,
        crew |-> <<"B", Space, Comma, "A", Comma, "B">>,
        orig_lang |-> <<"D", Comma, Space, "S">>],
       [names |-> Str("I"), date_x |-> <<Space, "d1">>, country |-> Str("C"),
        genre |-> <<"S">>, crew |-> NaN, orig_lang |-> NaN],
       [names |-> Str("U"), date_x |-> Str("d1"), country |-> Str("C"),
        genre |-> <<"C", Nbsp, Comma>>, crew |-> NaN, orig_lang |-> <<"D">>] >>

\* A row whose date does not parse.
DatasetBadDate ==
    << [names |-> Str("I"), date_x |-> Str("d1"), country |-> Str("C"),
        genre |-> <<"A">>, crew |-> <<"B">>, orig_lang |-> <<"D">>],
       [names |-> Str("U"), date_x |-> Str("bad"), country |-> Str("C"),
        genre |-> <<"A">>, crew |-> <<"B">>, orig_lang |-> <<"D">>] >>

\* A row whose genre and language fields hold no token.
DatasetSparse ==
    << [names |-> Str("I"), date_x |-> Str("d2"), country |-> Str("C"),
        genre |-> <<Comma>>, crew |-> <<"B">>, orig_lang |-> <<Space>>] >>

\* Two rows for the same movie whose date strings differ by a leading space.
DatasetPadded ==
    << [names |-> Str("I"), date_x |-> <<Space, "d1">>, country |-> Str("C"),
        genre |-> <<"A">>, crew |-> <<"B">>, orig_lang |-> <<"D">>],
       [names |-> Str("I"), date_x |-> Str("d1"), country |-> Str("C"),
        genre |-> <<"A">>, crew |-> <<"B">>, orig_lang |-> <<"D">>] >>

\* More movies than one chunk holds.
DatasetLong ==
    << [names |-> Str("I"), date_x |-> Str("d1"), country |-> Str("C"),
        genre |-> <<"A">>, crew |-> <<"B">>, orig_lang |-> <<"D">>],
       [names |-> Str("U"), date_x |-> Str("d1"), country |-> Str("C"),
        genre |-> <<"A">>, crew |-> <<"B">>, orig_lang |-> <<"D">>],
       [names |-> Str("U"), date_x |-> Str("d2"), country |-> Str("C"),
        genre |-> <<"A">>, crew |-> <<"B">>, orig_lang |-> <<"D">>] >>

Datasets == {DatasetScenario, DatasetMessy, DatasetBadDate, DatasetSparse,
             DatasetPadded, DatasetLong}

GroupRows == {[id |-> i, key |-> UserGroupEnum[i]] : i \in 1..Len(UserGroupEnum)}

\* Committed content before the first run.
InitStores ==
    { EmptyStore,
      [EmptyStore EXCEPT !["UserGroup"] = GroupRows],
      [EmptyStore EXCEPT !["UserGroup"] = {[id |-> 4, key |-> "admin"]}],
      [EmptyStore EXCEPT !["Genre"] = {[id |-> 7, key |-> Str("A")]},
                         !["Country"] = {[id |-> 3, key |-> Str("C")]}],
      [EmptyStore EXCEPT !["Movie"] = {[id |-> 1, name |-> Str("I"), date |-> "d1",
                                        country_id |-> 3]},
                         !["Country"] = {[id |-> 3, key |-> Str("C")]}],
      [EmptyStore EXCEPT !["Movie"] = {[id |-> 5, name |-> Str("U"), date |-> "d2",
                                        country_id |-> 1]},
                         !["UserGroup"] = GroupRows] }

\* Values handed to the resolver when it is exercised on its own.
Values == <<Str("A"), Str("B"), Str("C"), Str("D"), Str("S")>>

ValueIndex(v) == CHOOSE i \in 1..Len(Values) : Values[i] = v

\* Lists of values up to renaming: the first occurrences of the values
\* appear in the order of Values.
ItemLists ==
    UNION { { [i \in 1..n |-> Values[f[i]]] :
                f \in { g \in [1..n -> 1..Len(Values)] :
                          \A i \in 1..n :
                              \A v \in 1..(g[i] - 1) : \E j \in 1..(i - 1) : g[j] = v } }
            : n \in 0..MaxItems }

\* Initial contents of the resolver's collection: any set of values, each
\* held by one row.
InitRefRows ==
    { {[id |-> 10 + ValueIndex(v), key |-> v] : v \in S} : S \in SUBSET SeqRange(Values) }

EmptyDict == [k \in {} |-> 0]

InitSeedVars ==
    /\ data = <<>>
    /\ maps = EmptyDict
    /\ movie_ids = <<>>
    /\ assoc = <<>>
    /\ bk = 0
    /\ bi = 0

InitResolverVars ==
    /\ rpc = "idle"
    /\ r_model = "Country"
    /\ items = <<>>
    /\ existing_dict = EmptyDict
    /\ new_items = <<>>
    /\ r_i = 0
    /\ r_before = {}

\* The account endpoints with no user group, no user, no token, no profile.
EmptyAccounts ==
    [groups |-> {}, users |-> {}, activation_tokens |-> {},
     password_reset_tokens |-> {}, refresh_tokens |-> {}, profiles |-> {}]

\* A request with no field besides the email.
NoFields == [k \in {} |-> 0]

\* The account endpoints are not being exercised.
InitAccountVars ==
    /\ adb = EmptyAccounts
    /\ asess = EmptyAccounts
    /\ apc = "off"
    /\ endpoint = ""
    /\ user_data = ""
    /\ req = NoFields
    /\ issued = 0
    /\ token_record = 0
    /\ status_code = 0
    /\ detail = ""
    /\ body = NoFields
    /\ sent = <<>>
    /\ requests = 0
    /\ new_user = 0
    /\ afail = "none"
    /\ reqStart = [adb |-> EmptyAccounts, sent |-> <<>>]

\* Before the first invocation of the entry point.
Init ==
    /\ csv \in Datasets
    /\ db \in InitStores
    /\ sess = db
    /\ db0 = db
    /\ inTx = FALSE
    /\ uniq \in BOOLEAN
    /\ hashOrder \in {"asc", "desc"}
    /\ race = NoRace
    /\ run = 0
    /\ entry = "main"
    /\ pc = "idle"
    /\ mainOutcome = "none"
    /\ seedOutcome = "none"
    /\ committedRuns = 0
    /\ log = <<>>
    /\ failure = "none"
    /\ seeded = [data |-> <<>>, ids |-> <<>>, db |-> db]
    /\ InitSeedVars
    /\ InitResolverVars
    /\ InitAccountVars

\* A direct call of _get_or_create_bulk(GenreModel, items, 'name').
InitResolve ==
    /\ csv = <<>>
    /\ \E rows \in InitRefRows : db = [EmptyStore EXCEPT !["Genre"] = rows]
    /\ sess = db
    /\ db0 = db
    /\ inTx = FALSE
    /\ uniq \in BOOLEAN
    /\ hashOrder = "asc"
    /\ race = NoRace
    /\ run = 0
    /\ entry = "main"
    /\ pc = "harness"
    /\ mainOutcome = "none"
    /\ seedOutcome = "none"
    /\ committedRuns = 0
    /\ log = <<>>
    /\ failure = "none"
    /\ seeded = [data |-> <<>>, ids |-> <<>>, db |-> db]
    /\ InitSeedVars
    /\ rpc = "enter"
    /\ r_model = "Genre"
    /\ items \in ItemLists
    /\ existing_dict = EmptyDict
    /\ new_items = <<>>
    /\ r_i = 0
    /\ r_before = {}
    /\ InitAccountVars

---------------------------------------------------------------------------
\* Reference Resolver: CSVDatabaseSeeder._get_or_create_bulk.

\* SeedRaise with handlers that print and do not re-raise.
SeedSwallow == pc' = "seed_returned" /\ seedOutcome' = "returned"

\* An exception inside the try block of seed(): both handlers print and
\* re-raise, so seed() ends by raising.
SeedRaise == pc' = "seed_raised" /\ seedOutcome' = "raised"

\* An exception leaving _get_or_create_bulk: it ends the direct call, or
\* reaches the handlers of seed().
ResolverRaise ==
    IF pc = "harness"
    THEN rpc' = "raised" /\ UNCHANGED <<pc, seedOutcome>>
    ELSE rpc' = "idle" /\ SeedRaise

\* The ways the rows of a select result can be folded into a dict keyed by
\* the unique field: one row per key.
DictsOf(rows) ==
    {f \in [{r.key : r \in rows} -> rows] : \A k \in DOMAIN f : f[k].key = k}

\* ResolverEnter without the "if items" guard.
ResolverEnterNoGuard ==
    /\ rpc = "enter"
    /\ existing_dict' = EmptyDict
    /\ new_items' = <<>>
    /\ r_i' = 0
    /\ r_before' = sess[r_model]
    /\ rpc' = "lookup"
    /\ UNCHANGED <<csv, db, sess, inTx, constVars, accountVars, seeded, run, entry, pc, mainOutcome,
                   seedOutcome, committedRuns, log, failure, seedVars, r_model, items>>

\* existing_dict = {}; if items: ...
ResolverEnter ==
    /\ rpc = "enter"
    /\ existing_dict' = EmptyDict
    /\ new_items' = <<>>
    /\ r_i' = 0
    /\ r_before' = sess[r_model]
    /\ rpc' = IF items # <<>> THEN "lookup" ELSE "compute"
    /\ UNCHANGED <<csv, db, sess, inTx, constVars, accountVars, seeded, run, entry, pc, mainOutcome,
                   seedOutcome, committedRuns, log, failure, seedVars, r_model, items>>

\* One pass of the first loop: select the rows whose key is in the chunk.
ResolverLookup ==
    /\ rpc = "lookup"
    /\ log' = Append(log, Op("select", r_model, Chunk(items, r_i)))
    /\ inTx' = TRUE
    /\ \/ /\ \E f \in DictsOf(SelectIn(r_model, Chunk(items, r_i))) :
                existing_dict' = f @@ existing_dict
          /\ r_i' = r_i + CHUNK_SIZE
          /\ rpc' = IF r_i + CHUNK_SIZE < Len(items) THEN "lookup" ELSE "compute"
          /\ UNCHANGED <<pc, seedOutcome, failure>>
       \/ /\ ResolverRaise
          /\ failure' = "fault"
          /\ UNCHANGED <<existing_dict, r_i>>
    /\ UNCHANGED <<csv, db, sess, constVars, accountVars, seeded, run, entry, mainOutcome, committedRuns,
                   seedVars, r_model, items, new_items, r_before>>

\* NewItems without the membership test.
NewItemsAll(its, dict) == its

\* new_items = [item for item in items if item not in existing_dict]
NewItems(its, dict) == SelectSeq(its, LAMBDA x : x \notin DOMAIN dict)

ResolverCompute ==
    /\ rpc = "compute"
    /\ new_items' = NewItems(items, existing_dict)
    /\ r_i' = 0
    /\ rpc' = IF NewItems(items, existing_dict) # <<>> THEN "insert" ELSE "return"
    /\ UNCHANGED <<csv, db, sess, inTx, constVars, accountVars, seeded, run, entry, pc, mainOutcome,
                   seedOutcome, committedRuns, log, failure, seedVars, r_model, items,
                   existing_dict, r_before>>

\* new_records[i: i + CHUNK_SIZE]
NewRecords(its, i) == [j \in 1..Len(Chunk(its, i)) |-> [key |-> Chunk(its, i)[j]]]

\* ResolverInsert with no flush after the insert.
ResolverInsertNoFlush ==
    /\ rpc = "insert"
    /\ log' = Append(log, Op("insert", r_model, NewRecords(new_items, r_i)))
    /\ inTx' = TRUE
    /\ \/ /\ InsertAccepted(r_model, NewRecords(new_items, r_i))
          /\ sess' = [sess EXCEPT ![r_model] = Inserted(r_model, NewRecords(new_items, r_i))]
          /\ r_i' = IF r_i + CHUNK_SIZE < Len(new_items) THEN r_i + CHUNK_SIZE ELSE 0
          /\ rpc' = IF r_i + CHUNK_SIZE < Len(new_items) THEN "insert" ELSE "requery"
          /\ UNCHANGED <<pc, seedOutcome, failure>>
       \/ /\ ResolverRaise
          /\ failure' = "fault"
          /\ UNCHANGED <<sess, r_i>>
    /\ UNCHANGED <<csv, db, constVars, accountVars, seeded, run, entry, mainOutcome, committedRuns,
                   seedVars, r_model, items, existing_dict, new_items, r_before>>

\* One insert of the second loop.
ResolverInsert ==
    /\ rpc = "insert"
    /\ log' = Append(log, Op("insert", r_model, NewRecords(new_items, r_i)))
    /\ inTx' = TRUE
    /\ \/ /\ InsertAccepted(r_model, NewRecords(new_items, r_i))
          /\ sess' = [sess EXCEPT ![r_model] = Inserted(r_model, NewRecords(new_items, r_i))]
          /\ rpc' = "flush"
          /\ UNCHANGED <<pc, seedOutcome, failure>>
       \/ /\ ~InsertAccepted(r_model, NewRecords(new_items, r_i))
          /\ ResolverRaise
          /\ failure' = "constraint"
          /\ UNCHANGED sess
       \/ /\ ResolverRaise
          /\ failure' = "fault"
          /\ UNCHANGED sess
    /\ UNCHANGED <<csv, db, constVars, accountVars, seeded, run, entry, mainOutcome, committedRuns,
                   seedVars, r_model, items, existing_dict, new_items, r_i, r_before>>

\* The flush that follows each insert of the second loop.
ResolverFlush ==
    /\ rpc = "flush"
    /\ log' = Append(log, Op("flush", r_model, <<>>))
    /\ \/ /\ r_i' = IF r_i + CHUNK_SIZE < Len(new_items) THEN r_i + CHUNK_SIZE ELSE 0
          /\ rpc' = IF r_i + CHUNK_SIZE < Len(new_items) THEN "insert" ELSE "requery"
          /\ UNCHANGED <<pc, seedOutcome, failure>>
       \/ /\ ResolverRaise
          /\ failure' = "fault"
          /\ UNCHANGED r_i
    /\ UNCHANGED <<csv, db, sess, inTx, constVars, accountVars, seeded, run, entry, mainOutcome,
                   committedRuns, seedVars, r_model, items, existing_dict, new_items,
                   r_before>>

\* One pass of the third loop: select the rows just inserted.
ResolverRequery ==
    /\ rpc = "requery"
    /\ log' = Append(log, Op("select", r_model, Chunk(new_items, r_i)))
    /\ inTx' = TRUE
    /\ \/ /\ \E f \in DictsOf(SelectIn(r_model, Chunk(new_items, r_i))) :
                existing_dict' = f @@ existing_dict
          /\ r_i' = r_i + CHUNK_SIZE
          /\ rpc' = IF r_i + CHUNK_SIZE < Len(new_items) THEN "requery" ELSE "return"
          /\ UNCHANGED <<pc, seedOutcome, failure>>
       \/ /\ ResolverRaise
          /\ failure' = "fault"
          /\ UNCHANGED <<existing_dict, r_i>>
    /\ UNCHANGED <<csv, db, sess, constVars, accountVars, seeded, run, entry, mainOutcome, committedRuns,
                   seedVars, r_model, items, new_items, r_before>>

NextResolve ==
    \/ ResolverEnter
    \/ ResolverLookup
    \/ ResolverCompute
    \/ ResolverInsert
    \/ ResolverFlush
    \/ ResolverRequery

\* _get_or_create_bulk called directly on any list and any collection.
SpecResolve == InitResolve /\ [][NextResolve]_vars

---------------------------------------------------------------------------
\* Seeding Orchestrator: main(), the seed_database fixture and seed().

RefOrder == <<"Country", "Genre", "Actor", "Language">>
AssocOrder == <<"MoviesGenres", "ActorsMovies", "MoviesLanguages">>

\* One invocation of the entry point e begins, on a session of its own.
StartRun(e) ==
    /\ pc = "idle"
    /\ run < MaxRuns
    /\ run' = run + 1
    /\ entry' = e
    /\ pc' = "check"
    /\ sess' = db
    /\ inTx' = FALSE
    /\ log' = <<>>
    /\ failure' = "none"
    /\ mainOutcome' = "none"
    /\ seedOutcome' = "none"
    /\ data' = <<>>
    /\ maps' = EmptyDict
    /\ movie_ids' = <<>>
    /\ assoc' = <<>>
    /\ bk' = 0
    /\ bi' = 0
    /\ UNCHANGED <<csv, db, constVars, accountVars, seeded, committedRuns, resolverVars>>

\* IsDbPopulated with a check that never reports a populated store.
IsDbPopulatedNever ==
    /\ pc = "check"
    /\ log' = Append(log, Op("select", "Movie", <<>>))
    /\ inTx' = TRUE
    /\ \/ /\ pc' = "seed_begin"
          /\ UNCHANGED failure
       \/ /\ pc' = "propagating"
          /\ failure' = "fault"
    /\ UNCHANGED <<csv, db, sess, constVars, accountVars, seeded, run, entry, mainOutcome, seedOutcome,
                   committedRuns, seedVars, resolverVars>>

\* IsDbPopulated with a check that looks at the user groups.
IsDbPopulatedWrongTable ==
    /\ pc = "check"
    /\ log' = Append(log, Op("select", "Movie", <<>>))
    /\ inTx' = TRUE
    /\ \/ /\ pc' = IF sess["UserGroup"] # {} THEN "populated" ELSE "seed_begin"
          /\ UNCHANGED failure
       \/ /\ pc' = "propagating"
          /\ failure' = "fault"
    /\ UNCHANGED <<csv, db, sess, constVars, accountVars, seeded, run, entry, mainOutcome, seedOutcome,
                   committedRuns, seedVars, resolverVars>>

\* is_db_populated(): select(MovieModel).limit(1), then the branch of the
\* caller on its result.  An exception here leaves the entry point.
IsDbPopulated ==
    /\ pc = "check"
    /\ log' = Append(log, Op("select", "Movie", <<>>))
    /\ inTx' = TRUE
    /\ \/ /\ pc' = IF sess["Movie"] # {} THEN "populated" ELSE "seed_begin"
          /\ UNCHANGED failure
       \/ /\ pc' = "propagating"
          /\ failure' = "fault"
    /\ UNCHANGED <<csv, db, sess, constVars, accountVars, seeded, run, entry, mainOutcome, seedOutcome,
                   committedRuns, seedVars, resolverVars>>

\* SeedResetTx without the rollback.
SeedResetTxSkipped ==
    /\ pc = "seed_begin"
    /\ pc' = "groups_count"
    /\ UNCHANGED <<log, sess, inTx, seedOutcome, failure>>
    /\ UNCHANGED <<csv, db, constVars, accountVars, seeded, run, entry, mainOutcome, committedRuns,
                   seedVars, resolverVars>>

\* if self._db_session.in_transaction(): await self._db_session.rollback()
SeedResetTx ==
    /\ pc = "seed_begin"
    /\ IF inTx
       THEN /\ log' = Append(log, Op("rollback", "", <<>>))
            /\ \/ /\ sess' = db
                  /\ inTx' = FALSE
                  /\ pc' = "groups_count"
                  /\ UNCHANGED <<seedOutcome, failure>>
               \/ /\ SeedRaise
                  /\ failure' = "fault"
                  /\ UNCHANGED <<sess, inTx>>
       ELSE /\ pc' = "groups_count"
            /\ UNCHANGED <<log, sess, inTx, seedOutcome, failure>>
    /\ UNCHANGED <<csv, db, constVars, accountVars, seeded, run, entry, mainOutcome, committedRuns,
                   seedVars, resolverVars>>

\* SeedUserGroupsCount without the test of the count.
SeedUserGroupsCountAlways ==
    /\ pc = "groups_count"
    /\ log' = Append(log, Op("select", "UserGroup", <<>>))
    /\ inTx' = TRUE
    /\ \/ /\ pc' = "groups_insert"
          /\ UNCHANGED <<seedOutcome, failure>>
       \/ /\ SeedRaise
          /\ failure' = "fault"
    /\ UNCHANGED <<csv, db, sess, constVars, accountVars, seeded, run, entry, mainOutcome, committedRuns,
                   seedVars, resolverVars>>

\* _seed_user_groups: select(func.count(UserGroupModel.id))
SeedUserGroupsCount ==
    /\ pc = "groups_count"
    /\ log' = Append(log, Op("select", "UserGroup", <<>>))
    /\ inTx' = TRUE
    /\ \/ /\ pc' = IF Cardinality(sess["UserGroup"]) = 0
                   THEN "groups_insert" ELSE "preprocess"
          /\ UNCHANGED <<seedOutcome, failure>>
       \/ /\ SeedRaise
          /\ failure' = "fault"
    /\ UNCHANGED <<csv, db, sess, constVars, accountVars, seeded, run, entry, mainOutcome, committedRuns,
                   seedVars, resolverVars>>

\* groups = [{"name": group.value} for group in UserGroupEnum]
GroupValues == [i \in 1..Len(UserGroupEnum) |-> [key |-> UserGroupEnum[i]]]

\* _seed_user_groups: insert(UserGroupModel).values(groups)
SeedUserGroupsInsert ==
    /\ pc = "groups_insert"
    /\ log' = Append(log, Op("insert", "UserGroup", GroupValues))
    /\ \/ /\ InsertAccepted("UserGroup", GroupValues)
          /\ sess' = [sess EXCEPT !["UserGroup"] = Inserted("UserGroup", GroupValues)]
          /\ pc' = "groups_flush"
          /\ UNCHANGED <<seedOutcome, failure>>
       \/ /\ ~InsertAccepted("UserGroup", GroupValues)
          /\ SeedRaise
          /\ failure' = "constraint"
          /\ UNCHANGED sess
       \/ /\ SeedRaise
          /\ failure' = "fault"
          /\ UNCHANGED sess
    /\ UNCHANGED <<csv, db, inTx, constVars, accountVars, seeded, run, entry, mainOutcome, committedRuns,
                   seedVars, resolverVars>>

\* SeedUserGroupsFlush with a commit in place of the flush.
SeedUserGroupsCommit ==
    /\ pc = "groups_flush"
    /\ log' = Append(log, Op("flush", "UserGroup", <<>>))
    /\ \/ /\ pc' = "preprocess"
          /\ db' = sess
          /\ UNCHANGED <<seedOutcome, failure>>
       \/ /\ SeedRaise
          /\ failure' = "fault"
          /\ UNCHANGED db
    /\ UNCHANGED <<csv, sess, inTx, constVars, accountVars, seeded, run, entry, mainOutcome,
                   committedRuns, seedVars, resolverVars>>

\* _seed_user_groups: the flush after the insert.
SeedUserGroupsFlush ==
    /\ pc = "groups_flush"
    /\ log' = Append(log, Op("flush", "UserGroup", <<>>))
    /\ \/ /\ pc' = "preprocess"
          /\ UNCHANGED <<seedOutcome, failure>>
       \/ /\ SeedRaise
          /\ failure' = "fault"
    /\ UNCHANGED <<csv, db, sess, inTx, constVars, accountVars, seeded, run, entry, mainOutcome,
                   committedRuns, seedVars, resolverVars>>

\* data = self._preprocess_csv(): the date parse raises, or the cleaned
\* rows are written back to the file and returned.
PreprocessCsv ==
    /\ pc = "preprocess"
    /\ IF PreprocessRaises(csv)
       THEN /\ SeedRaise
            /\ failure' = "input"
            /\ UNCHANGED <<csv, data>>
       ELSE /\ data' = Preprocess(csv)
            /\ csv' = CsvOfData(Preprocess(csv))
            /\ pc' = "ref"
            /\ UNCHANGED <<seedOutcome, failure>>
    /\ UNCHANGED <<db, sess, inTx, constVars, accountVars, seeded, run, entry, mainOutcome, committedRuns,
                   log, maps, movie_ids, assoc, bk, bi, resolverVars>>

\* The list _prepare_reference_data hands to _get_or_create_bulk for a kind.
CandidatesOf(kind, d) ==
    IF kind = "Country" THEN Countries(d)
    ELSE IF kind = "Genre" THEN ListOfSet(TokensOfColumn(d, "genre"))
    ELSE IF kind = "Actor" THEN ListOfSet(TokensOfColumn(d, "crew"))
    ELSE ListOfSet(TokensOfColumn(d, "orig_lang"))

\* _prepare_reference_data: the next of the four calls.
PrepareReferenceData ==
    /\ pc = "ref"
    /\ rpc = "idle"
    /\ LET kind == RefOrder[Cardinality(DOMAIN maps) + 1]
       IN  /\ r_model' = kind
           /\ items' = CandidatesOf(kind, data)
    /\ rpc' = "enter"
    /\ UNCHANGED <<csv, db, sess, inTx, constVars, accountVars, seeded, run, entry, pc, mainOutcome,
                   seedOutcome, committedRuns, log, failure, seedVars, existing_dict,
                   new_items, r_i, r_before>>

\* return existing_dict, received by _prepare_reference_data.
ResolverReturn ==
    /\ pc = "ref"
    /\ rpc = "return"
    /\ maps' = (r_model :> existing_dict) @@ maps
    /\ rpc' = "idle"
    /\ pc' = IF Cardinality(DOMAIN maps) + 1 = Len(RefOrder) THEN "movies" ELSE "ref"
    /\ UNCHANGED <<csv, db, sess, inTx, constVars, accountVars, seeded, run, entry, mainOutcome,
                   seedOutcome, committedRuns, log, failure, data, movie_ids, assoc,
                   bk, bi, r_model, items, existing_dict, new_items, r_i, r_before>>

\* _prepare_movies_data
MoviesData(d, country_map) ==
    [i \in 1..Len(d) |->
        [name |-> d[i].names, date |-> d[i].date_x,
         country_id |-> country_map[d[i].country].id]]

\* country_map[row['country']] raises KeyError.
MoviesDataRaises(d, country_map) ==
    \E i \in 1..Len(d) : d[i].country \notin DOMAIN country_map

\* The orders in which the elements of s can be listed.
PermSeqs(s) ==
    {[i \in 1..Len(s) |-> s[p[i]]] :
        p \in {q \in [1..Len(s) -> 1..Len(s)] :
                  \A a, b \in 1..Len(s) : q[a] = q[b] => a = b}}

\* The identifiers generated for n movie rows, in the order of the rows.
GeneratedIds(n) == [i \in 1..n |-> MaxId(sess["Movie"]) + i]

\* result.scalars().all() of insert(MovieModel).returning(MovieModel.id):
\* the statement does not ask for sort_by_parameter_order, so the rows of
\* RETURNING come back in an order the backend chooses.
ReturnedIds(n) == PermSeqs(GeneratedIds(n))

\* InsertMovies with the movie rows committed as soon as they are inserted.
InsertMoviesCommitted ==
    /\ pc = "movies"
    /\ IF MoviesDataRaises(data, maps["Country"])
       THEN /\ SeedRaise
            /\ failure' = "lookup"
            /\ UNCHANGED <<log, sess, db, movie_ids>>
       ELSE /\ log' = Append(log, Op("insert", "Movie", MoviesData(data, maps["Country"])))
            /\ \/ /\ InsertAccepted("Movie", MoviesData(data, maps["Country"]))
                  /\ sess' = [sess EXCEPT !["Movie"] =
                                 Inserted("Movie", MoviesData(data, maps["Country"]))]
                  /\ db' = sess'
                  /\ movie_ids' \in ReturnedIds(Len(data))
                  /\ pc' = "assoc"
                  /\ UNCHANGED <<seedOutcome, failure>>
               \/ /\ ~InsertAccepted("Movie", MoviesData(data, maps["Country"]))
                  /\ SeedRaise
                  /\ failure' = "constraint"
                  /\ UNCHANGED <<sess, db, movie_ids>>
               \/ /\ SeedRaise
                  /\ failure' = "fault"
                  /\ UNCHANGED <<sess, db, movie_ids>>
    /\ UNCHANGED <<csv, inTx, constVars, accountVars, seeded, run, entry, mainOutcome, committedRuns,
                   data, maps, assoc, bk, bi, resolverVars>>

\* movies_data = ...; execute(insert(MovieModel).returning(MovieModel.id),
\* movies_data): one statement carrying every movie row.
InsertMovies ==
    /\ pc = "movies"
    /\ IF MoviesDataRaises(data, maps["Country"])
       THEN /\ SeedRaise
            /\ failure' = "lookup"
            /\ UNCHANGED <<log, sess, movie_ids>>
       ELSE /\ log' = Append(log, Op("insert", "Movie", MoviesData(data, maps["Country"])))
            /\ \/ /\ InsertAccepted("Movie", MoviesData(data, maps["Country"]))
                  /\ sess' = [sess EXCEPT !["Movie"] =
                                 Inserted("Movie", MoviesData(data, maps["Country"]))]
                  /\ movie_ids' \in ReturnedIds(Len(data))
                  /\ pc' = "assoc"
                  /\ UNCHANGED <<seedOutcome, failure>>
               \/ /\ ~InsertAccepted("Movie", MoviesData(data, maps["Country"]))
                  /\ SeedRaise
                  /\ failure' = "constraint"
                  /\ UNCHANGED <<sess, movie_ids>>
               \/ /\ SeedRaise
                  /\ failure' = "fault"
                  /\ UNCHANGED <<sess, movie_ids>>
    /\ UNCHANGED <<csv, db, inTx, constVars, accountVars, seeded, run, entry, mainOutcome, committedRuns,
                   data, maps, assoc, bk, bi, resolverVars>>

\* RowTokens that stops after the first piece of the field.
RowTokensFirst(s) == SelectSeq(<<Strip(Split(s)[1])>>, LAMBDA t : t # <<>>)

\* The tokens of one field as the association loops see them:
\* split(','), strip(), empty tokens skipped.
RowTokens(s) == SelectSeq([j \in 1..Len(Split(s)) |-> Strip(Split(s)[j])],
                          LAMBDA t : t # <<>>)

\* The association rows of dataset rows i..Len(d) for one column.
RECURSIVE AssocRows(_, _, _, _, _)
AssocRows(d, ids, col, map, i) ==
    IF i > Len(d) THEN <<>>
    ELSE [j \in 1..Len(RowTokens(d[i][col])) |->
             [movie_id |-> ids[i], ref_id |-> map[RowTokens(d[i][col])[j]].id]]
         \o AssocRows(d, ids, col, map, i + 1)

\* movie_ids[i] raises IndexError or a mapping lookup raises KeyError.
AssocRaises(d, ids, gm, am, lm) ==
    \E i \in 1..Len(d) :
        \/ i > Len(ids)
        \/ \E t \in SeqRange(RowTokens(d[i].genre)) : t \notin DOMAIN gm
        \/ \E t \in SeqRange(RowTokens(d[i].crew)) : t \notin DOMAIN am
        \/ \E t \in SeqRange(RowTokens(d[i].orig_lang)) : t \notin DOMAIN lm

\* The association rows of dataset rows i..Len(d) for one column, the
\* tokens absent from the mapping skipped.
RECURSIVE AssocRowsPresent(_, _, _, _, _)
AssocRowsPresent(d, ids, col, map, i) ==
    IF i > Len(d) THEN <<>>
    ELSE LET toks == SelectSeq(RowTokens(d[i][col]), LAMBDA t : t \in DOMAIN map)
         IN  [j \in 1..Len(toks) |-> [movie_id |-> ids[i], ref_id |-> map[toks[j]].id]]
             \o AssocRowsPresent(d, ids, col, map, i + 1)

\* PrepareAssociations that skips a token absent from its mapping.
PrepareAssociationsSkipping ==
    /\ pc = "assoc"
    /\ assoc' = << AssocRowsPresent(data, movie_ids, "genre", maps["Genre"], 1),
                   AssocRowsPresent(data, movie_ids, "crew", maps["Actor"], 1),
                   AssocRowsPresent(data, movie_ids, "orig_lang", maps["Language"], 1) >>
    /\ bk' = 1
    /\ bi' = 0
    /\ pc' = "bulk"
    /\ UNCHANGED <<seedOutcome, failure>>
    /\ UNCHANGED <<csv, db, sess, inTx, constVars, accountVars, seeded, run, entry, mainOutcome,
                   committedRuns, log, data, maps, movie_ids, resolverVars>>

\* _prepare_associations
PrepareAssociations ==
    /\ pc = "assoc"
    /\ IF AssocRaises(data, movie_ids, maps["Genre"], maps["Actor"], maps["Language"])
       THEN /\ SeedRaise
            /\ failure' = "lookup"
            /\ UNCHANGED <<assoc, bk, bi>>
       ELSE /\ assoc' = << AssocRows(data, movie_ids, "genre", maps["Genre"], 1),
                           AssocRows(data, movie_ids, "crew", maps["Actor"], 1),
                           AssocRows(data, movie_ids, "orig_lang", maps["Language"], 1) >>
            /\ bk' = 1
            /\ bi' = 0
            /\ pc' = "bulk"
            /\ UNCHANGED <<seedOutcome, failure>>
    /\ UNCHANGED <<csv, db, sess, inTx, constVars, accountVars, seeded, run, entry, mainOutcome,
                   committedRuns, log, data, maps, movie_ids, resolverVars>>

\* NumChunks rounding down.
NumChunksFloor(n) == n \div CHUNK_SIZE

\* math.ceil(total_records / CHUNK_SIZE)
NumChunks(n) == (n + CHUNK_SIZE - 1) \div CHUNK_SIZE

\* Where seed() continues after the bk-th _bulk_insert.
AfterBulk == IF bk = Len(AssocOrder) THEN "commit" ELSE "bulk"

\* _bulk_insert: if total_records == 0: return
BulkInsertEmpty ==
    /\ pc = "bulk"
    /\ Len(assoc[bk]) = 0
    /\ bk' = bk + 1
    /\ bi' = 0
    /\ pc' = AfterBulk
    /\ UNCHANGED <<csv, db, sess, inTx, constVars, accountVars, seeded, run, entry, mainOutcome,
                   seedOutcome, committedRuns, log, failure, data, maps, movie_ids,
                   assoc, resolverVars>>

\* _bulk_insert: one pass of the loop over chunk_index.
BulkInsertChunk ==
    /\ pc = "bulk"
    /\ Len(assoc[bk]) > 0
    /\ log' = Append(log, Op("insert", AssocOrder[bk], Chunk(assoc[bk], bi * CHUNK_SIZE)))
    /\ \/ /\ InsertAccepted(AssocOrder[bk], Chunk(assoc[bk], bi * CHUNK_SIZE))
          /\ sess' = [sess EXCEPT ![AssocOrder[bk]] =
                         Inserted(AssocOrder[bk], Chunk(assoc[bk], bi * CHUNK_SIZE))]
          /\ bi' = bi + 1
          /\ pc' = IF bi + 1 < NumChunks(Len(assoc[bk])) THEN "bulk" ELSE "bulk_flush"
          /\ UNCHANGED <<seedOutcome, failure>>
       \/ /\ ~InsertAccepted(AssocOrder[bk], Chunk(assoc[bk], bi * CHUNK_SIZE))
          /\ SeedRaise
          /\ failure' = "constraint"
          /\ UNCHANGED <<sess, bi>>
       \/ /\ SeedRaise
          /\ failure' = "fault"
          /\ UNCHANGED <<sess, bi>>
    /\ UNCHANGED <<csv, db, inTx, constVars, accountVars, seeded, run, entry, mainOutcome, committedRuns,
                   data, maps, movie_ids, assoc, bk, resolverVars>>

\* _bulk_insert: the flush after the loop.
BulkInsertFlush ==
    /\ pc = "bulk_flush"
    /\ log' = Append(log, Op("flush", AssocOrder[bk], <<>>))
    /\ \/ /\ bk' = bk + 1
          /\ bi' = 0
          /\ pc' = AfterBulk
          /\ UNCHANGED <<seedOutcome, failure>>
       \/ /\ SeedRaise
          /\ failure' = "fault"
          /\ UNCHANGED <<bk, bi>>
    /\ UNCHANGED <<csv, db, sess, inTx, constVars, accountVars, seeded, run, entry, mainOutcome,
                   committedRuns, data, maps, movie_ids, assoc, resolverVars>>

\* await self._db_session.commit(), after which seed() returns.
Commit ==
    /\ pc = "commit"
    /\ log' = Append(log, Op("commit", "", <<>>))
    /\ \/ /\ db' = sess
          /\ inTx' = FALSE
          /\ pc' = "seed_returned"
          /\ seedOutcome' = "returned"
          /\ committedRuns' = committedRuns + 1
          /\ seeded' = [data |-> data, ids |-> movie_ids, db |-> sess]
          /\ UNCHANGED failure
       \/ /\ SeedRaise
          /\ failure' = "fault"
          /\ UNCHANGED <<db, inTx, committedRuns, seeded>>
    /\ UNCHANGED <<csv, sess, constVars, accountVars, run, entry, mainOutcome, seedVars, resolverVars>>

\* main(): try: await seeder.seed() ... except Exception as e: print(...)
MainAfterSeed ==
    /\ entry = "main"
    /\ pc \in {"seed_returned", "seed_raised"}
    /\ pc' = IF pc = "seed_returned" THEN "completed" ELSE "caught"
    /\ UNCHANGED <<csv, db, sess, inTx, constVars, accountVars, seeded, run, entry, mainOutcome,
                   seedOutcome, committedRuns, log, failure, seedVars, resolverVars>>

\* seed_database: await seeder.seed() outside any try block.
FixtureAfterSeed ==
    /\ entry = "seed_database"
    /\ pc \in {"seed_returned", "seed_raised"}
    /\ pc' = IF pc = "seed_returned" THEN "completed" ELSE "propagating"
    /\ UNCHANGED <<csv, db, sess, inTx, constVars, accountVars, seeded, run, entry, mainOutcome,
                   seedOutcome, committedRuns, log, failure, seedVars, resolverVars>>

\* The exit of "async with get_db_contextmanager() as db_session": the
\* session is closed, which discards what it has not committed, and the
\* caller of the entry point sees a normal return or the exception.
CloseSession ==
    /\ pc \in {"populated", "completed", "caught", "propagating"}
    /\ sess' = db
    /\ inTx' = FALSE
    /\ mainOutcome' = IF pc = "propagating" THEN "raised" ELSE "returned"
    /\ pc' = "idle"
    /\ UNCHANGED <<csv, db, constVars, accountVars, seeded, run, entry, seedOutcome, committedRuns, log,
                   failure, seedVars, resolverVars>>

Next ==
    \/ \E e \in {"main", "seed_database"} : StartRun(e)
    \/ IsDbPopulated
    \/ SeedResetTx
    \/ SeedUserGroupsCount
    \/ SeedUserGroupsInsert
    \/ SeedUserGroupsFlush
    \/ PreprocessCsv
    \/ PrepareReferenceData
    \/ ResolverEnter
    \/ ResolverLookup
    \/ ResolverCompute
    \/ ResolverInsert
    \/ ResolverFlush
    \/ ResolverRequery
    \/ ResolverReturn
    \/ InsertMovies
    \/ PrepareAssociations
    \/ BulkInsertEmpty
    \/ BulkInsertChunk
    \/ BulkInsertFlush
    \/ Commit
    \/ MainAfterSeed
    \/ FixtureAfterSeed
    \/ CloseSession

\* Sequential invocations of the seeding entry points.
Spec == Init /\ [][Next]_vars

---------------------------------------------------------------------------
\* Properties of the seeding runs (checked under Spec).

\* Every movie, reference row and association that seed() derives from
\* the rows d, with ids the identifiers returned by the movie insert, is in
\* the store st.
FullySeeded(st, d, ids) ==
    /\ Len(ids) = Len(d)
    /\ \A i \in 1..Len(d) :
        /\ \E m \in st["Movie"] :
              /\ m.name = d[i].names
              /\ m.date = d[i].date_x
              /\ \E c \in st["Country"] : c.id = m.country_id /\ c.key = d[i].country
        /\ \E m \in st["Movie"] : m.id = ids[i]
        /\ \A t \in SeqRange(RowTokens(d[i].genre)) :
             \E g \in st["Genre"] :
                 /\ g.key = t
                 /\ \E a \in st["MoviesGenres"] : a.movie_id = ids[i] /\ a.ref_id = g.id
        /\ \A t \in SeqRange(RowTokens(d[i].crew)) :
             \E g \in st["Actor"] :
                 /\ g.key = t
                 /\ \E a \in st["ActorsMovies"] : a.movie_id = ids[i] /\ a.ref_id = g.id
        /\ \A t \in SeqRange(RowTokens(d[i].orig_lang)) :
             \E g \in st["Language"] :
                 /\ g.key = t
                 /\ \E a \in st["MoviesLanguages"] : a.movie_id = ids[i] /\ a.ref_id = g.id

NoCommitInLog == \A j \in 1..Len(log) : log[j].op # "commit"

\* C1: the committed store is the initial one, or holds everything the
\* input file calls for; a commit is the last operation of its run, issued
\* after the third association set, and a seed() that returns has issued it.
C1_AllOrNothing ==
    /\ pc # "harness" =>
         \/ db = db0
         \/ committedRuns >= 1 /\ FullySeeded(db, seeded.data, seeded.ids)
    /\ \A j \in 1..Len(log) :
         log[j].op = "commit" => j = Len(log) /\ bk = Len(AssocOrder) + 1
    /\ seedOutcome = "returned" => log # <<>> /\ log[Len(log)].op = "commit"

C1_Witness ==
    /\ pc = "seed_returned"
    /\ db0 = EmptyStore
    /\ Len(seeded.data) = 2
    /\ Cardinality(db["Movie"]) = 2
    /\ Cardinality(db["MoviesGenres"]) = 4

\* C2: when an association write has failed after the movie insert, the
\* session shows no movie row once seed() has raised.
C2_AssociationFailureHidesMovies ==
    (/\ seedOutcome = "raised"
     /\ movie_ids # <<>>
     /\ bk \in 1..Len(AssocOrder)
     /\ failure \in {"fault", "constraint"})
    => sess["Movie"] = {}

\* C3: once a run on an initially empty store has committed, a later
\* invocation issues no insert, flush or commit and leaves every collection
\* as the commit left it.
C3_SecondRunWritesNothing ==
    (db0 = EmptyStore /\ committedRuns >= 1 /\ NoCommitInLog)
    => /\ \A j \in 1..Len(log) : ~IsWrite(log[j])
       /\ db = seeded.db
       /\ sess = db

C3_Witness ==
    /\ db0 = EmptyStore
    /\ committedRuns = 1
    /\ run = 2
    /\ pc = "idle"
    /\ mainOutcome = "returned"
    /\ log = <<Op("select", "Movie", <<>>)>>

\* C4: a run that finds a movie row at its check issues that one select
\* and nothing else, never enters seed(), changes no collection, and,
\* unless the select itself fails, passes through Populated and returns.
C4_PopulatedIsNoOp ==
    (run >= 1 /\ pc # "check" /\ db["Movie"] # {} /\ NoCommitInLog)
    => /\ log = <<Op("select", "Movie", <<>>)>>
       /\ seedOutcome = "none"
       /\ sess = db
       /\ db = seeded.db
       /\ pc \in {"populated", "idle", "propagating"}
       /\ failure = "none" => pc \in {"populated", "idle"}
       /\ (failure = "none" /\ pc = "idle") => mainOutcome = "returned"

C4_Witness ==
    /\ pc = "populated"
    /\ db0["Movie"] # {}
    /\ db["UserGroup"] = {}
    /\ db["Country"] # {}

\* C5: a failure at any step of seed() makes seed() raise, with nothing
\* of the run committed, and a seed() that returns has had no failure.
C5_FailureReraised ==
    pc # "harness" =>
        /\ seedOutcome = "raised" =>
             /\ failure # "none"
             /\ pc \in {"seed_raised", "caught", "propagating", "idle"}
             /\ db = seeded.db
        /\ failure # "none" =>
             \/ seedOutcome = "raised"
             \/ seedOutcome = "none" /\ Len(log) = 1
        /\ seedOutcome = "returned" => failure = "none"

C5_Witness ==
    /\ pc = "seed_raised"
    /\ failure = "fault"
    /\ log[Len(log)].op = "commit"
    /\ sess["Movie"] # {}
    /\ db["Movie"] = {}

\* C6: a run of main() in which seed() raised ends with the exception
\* reaching the caller of main().
C6_MainReraises ==
    (entry = "main" /\ pc = "idle" /\ seedOutcome = "raised") => mainOutcome = "raised"

---------------------------------------------------------------------------
\* Properties of the reference resolver (checked under SpecResolve).

HasRepeats(s) == \E i, j \in 1..Len(s) : i < j /\ s[i] = s[j]

RowsWithKey(rows, k) == {r \in rows : r.key = k}

\* Rows of the resolver's collection that the current call created.
Created == sess[r_model] \ r_before

RECURSIVE ConcatArgsOf(_, _)
ConcatArgsOf(l, kind) ==
    IF l = <<>> THEN <<>>
    ELSE (IF Head(l).op = kind THEN Head(l).arg ELSE <<>>) \o ConcatArgsOf(Tail(l), kind)

\* The arguments of the logged operations of one kind, in the order issued.
ConcatArgs(kind) == ConcatArgsOf(log, kind)

BoundarySize(n) ==
    \E k \in 1..(n + 1) : n \in {k * CHUNK_SIZE - 1, k * CHUNK_SIZE, k * CHUNK_SIZE + 1}

\* C7: a direct call on an empty collection with a list that repeats a
\* value ends, unless a storage operation fails, by returning a mapping with
\* one entry per distinct value, having created one row per distinct value.
C7_RepeatedValuesResolved ==
    (/\ pc = "harness"
     /\ rpc \in {"return", "raised"}
     /\ r_before = {}
     /\ HasRepeats(items)
     /\ failure # "fault")
    => /\ rpc = "return"
       /\ DOMAIN existing_dict = SeqRange(items)
       /\ Cardinality(Created) = Cardinality(SeqRange(items))

\* C8: for a list of distinct values and any initial collection, no two
\* rows ever share a key, and the returned mapping has exactly the
\* candidates as keys, each existing value mapped to its old row and not
\* inserted again, each missing value mapped to its one new row.
C8_DistinctCandidatesResolved ==
    (pc = "harness" /\ ~HasRepeats(items))
    => /\ KeysUnique(r_model, sess[r_model])
       /\ rpc = "return" =>
            /\ DOMAIN existing_dict = SeqRange(items)
            /\ r_before \subseteq sess[r_model]
            /\ \A k \in SeqRange(items) :
                 /\ existing_dict[k] \in RowsWithKey(sess[r_model], k)
                 /\ RowsWithKey(r_before, k) # {} =>
                      /\ existing_dict[k] \in r_before
                      /\ RowsWithKey(Created, k) = {}
                 /\ RowsWithKey(r_before, k) = {} =>
                      /\ existing_dict[k] \in Created
                      /\ Cardinality(RowsWithKey(Created, k)) = 1

C8_Witness ==
    /\ pc = "harness"
    /\ rpc = "return"
    /\ ~HasRepeats(items)
    /\ Len(items) > CHUNK_SIZE
    /\ \E k \in SeqRange(items) : RowsWithKey(r_before, k) # {}
    /\ \E k \in SeqRange(items) : RowsWithKey(Created, k) # {}

\* C9: for distinct candidates whose number is a multiple of the chunk
\* size, one more or one less, the returned mapping is complete and the
\* three loops cover their lists exactly: the lookups and re-queries select
\* every value once, the inserts write every missing value once.
C9_ChunkBoundaries ==
    (/\ pc = "harness"
     /\ rpc = "return"
     /\ ~HasRepeats(items)
     /\ BoundarySize(Len(items)))
    => /\ DOMAIN existing_dict = SeqRange(items)
       /\ SeqRange(new_items) = SeqRange(items) \ {r.key : r \in r_before}
       /\ ~HasRepeats(new_items)
       /\ ConcatArgs("select") = items \o new_items
       /\ ConcatArgs("insert") = [j \in 1..Len(new_items) |-> [key |-> new_items[j]]]
       /\ \A k \in SeqRange(new_items) : Cardinality(RowsWithKey(Created, k)) = 1
       /\ \A j \in 1..Len(log) : Len(log[j].arg) <= CHUNK_SIZE

C9_Witness ==
    /\ pc = "harness"
    /\ rpc = "return"
    /\ ~HasRepeats(items)
    /\ Len(items) = CHUNK_SIZE + 1
    /\ Len(new_items) = CHUNK_SIZE + 1

\* C10: a direct call with an empty list issues no storage operation,
\* changes nothing and returns an empty mapping.
C10_EmptyCandidates ==
    (pc = "harness" /\ items = <<>>)
    => /\ log = <<>>
       /\ sess = db0
       /\ rpc # "raised"
       /\ rpc = "return" => existing_dict = EmptyDict

C10_Witness == pc = "harness" /\ items = <<>> /\ rpc = "return"

---------------------------------------------------------------------------
\* Properties of the steps of seed() (checked under Spec).

\* The dataset column and the mapping behind each association set.
AssocColumn == <<"genre", "crew", "orig_lang">>
AssocRef == <<"Genre", "Actor", "Language">>

\* seed() is past _prepare_associations with the run's rows still in the
\* session.
AssociationsBuilt == pc \in {"bulk", "bulk_flush", "commit", "seed_returned"}

\* C11: once the associations are built, movie_ids has one identifier per
\* dataset row, the i-th being that of the movie inserted from row i, and
\* every association row built from row i carries it.
C11_AssociationsCarryOwnMovie ==
    AssociationsBuilt =>
        /\ Len(movie_ids) = Len(data)
        /\ \A i \in 1..Len(data) :
             \E m \in sess["Movie"] :
                 /\ m.id = movie_ids[i]
                 /\ m.name = data[i].names
                 /\ m.date = data[i].date_x
        /\ \A k \in 1..Len(AssocOrder) :
             assoc[k] = AssocRows(data, movie_ids, AssocColumn[k], maps[AssocRef[k]], 1)

\* C12: a committed run on an empty store with the two-movie scenario
\* leaves 3 genres, 2 movies and 4 movie-genre rows, and one Action row
\* that both movies are associated with.
C12_SharedGenreScenario ==
    (/\ db0 = EmptyStore
     /\ committedRuns >= 1
     /\ seeded.data = Preprocess(DatasetScenario))
    => /\ {g.key : g \in db["Genre"]} = {Str("A"), Str("S"), Str("C")}
       /\ Cardinality(db["Genre"]) = 3
       /\ Cardinality(db["Movie"]) = 2
       /\ Cardinality(db["MoviesGenres"]) = 4
       /\ \E g \in db["Genre"] :
            /\ g.key = Str("A")
            /\ \A m \in db["Movie"] :
                 \E a \in db["MoviesGenres"] : a.movie_id = m.id /\ a.ref_id = g.id

C12_Witness ==
    /\ db0 = EmptyStore
    /\ pc = "seed_returned"
    /\ seeded.data = Preprocess(DatasetScenario)
    /\ {m.name : m \in db["Movie"]} = {Str("I"), Str("U")}

\* C13: when the date of a row does not parse, the run has issued no
\* insert and no flush.
C13_BadDateBeforeAnyWrite ==
    failure = "input" => \A j \in 1..Len(log) : ~IsWrite(log[j])

\* The operations the run has issued on one collection, in order.
OpsOn(t) == SelectSeq(log, LAMBDA o : o.table = t)

\* C14: a finished _bulk_insert of n rows has issued nothing when n = 0,
\* and otherwise ceil(n / CHUNK_SIZE) inserts whose batches concatenate to
\* the list it was given, then one flush.
C14_BulkInsertBatches ==
    assoc # <<>> =>
        \A k \in 1..Len(AssocOrder) :
            k < bk =>
                LET ops == OpsOn(AssocOrder[k])
                    n == Len(assoc[k])
                    c == Len(ops) - 1
                IN  IF n = 0 THEN ops = <<>>
                    ELSE /\ c >= 1
                         /\ c * CHUNK_SIZE >= n
                         /\ (c - 1) * CHUNK_SIZE < n
                         /\ \A j \in 1..c : ops[j].op = "insert"
                         /\ ops[c + 1].op = "flush"
                         /\ ConcatArgsOf(ops, "insert") = assoc[k]

C14_Witness ==
    /\ pc = "commit"
    /\ Len(assoc[1]) = 2 * CHUNK_SIZE
    /\ Len(assoc[2]) = CHUNK_SIZE + 1
    /\ Len(OpsOn("ActorsMovies")) = 3

\* C15: no insert of a run carries more than CHUNK_SIZE rows.  The insert
\* of the user groups is left aside: it always carries the three members
\* of the enumeration, far below the chunk size of populate.py.
C15_EveryInsertBounded ==
    \A j \in 1..Len(log) :
        (log[j].op = "insert" /\ log[j].table # "UserGroup")
        => Len(log[j].arg) <= CHUNK_SIZE

\* C16: the committed user groups are those of the start or exactly one
\* row per member of UserGroupEnum, and a run inserts user groups at most
\* once and only when it found the collection empty.
C16_UserGroupsOncePerMember ==
    /\ \/ db["UserGroup"] = db0["UserGroup"]
       \/ /\ Cardinality(db["UserGroup"]) = Len(UserGroupEnum)
          /\ {g.key : g \in db["UserGroup"]} = SeqRange(UserGroupEnum)
    /\ pc = "groups_insert" => sess["UserGroup"] = {}
    /\ LET ins == SelectSeq(OpsOn("UserGroup"), LAMBDA o : o.op = "insert")
       IN  /\ Len(ins) <= 1
           /\ (Len(ins) = 1 /\ seedOutcome # "returned") => db["UserGroup"] = {}
           /\ (Len(ins) = 1 /\ seedOutcome = "returned") =>
                {g.key : g \in db["UserGroup"]} = SeqRange(UserGroupEnum)

C16_Witness ==
    /\ db0["UserGroup"] = {}
    /\ pc = "seed_returned"
    /\ Cardinality(db["UserGroup"]) = Len(UserGroupEnum)
    /\ OpsOn("UserGroup")[2].op = "insert"

\* C17: no association set built by a run holds the same (movie id,
\* reference id) pair twice.
C17_NoDuplicatePairs ==
    assoc # <<>> => \A k \in 1..Len(AssocOrder) : ~HasRepeats(assoc[k])

\* C18: no two rows of the DataFrame returned by _preprocess_csv share
\* their name and parsed date.
C18_NormalizedRowsUnique ==
    \A i, j \in 1..Len(data) :
        (data[i].names = data[j].names /\ data[i].date_x = data[j].date_x) => i = j

---------------------------------------------------------------------------
\* Account endpoints of src/routes/accounts.py.  Requests are served one
\* after the other, each on a session of its own.

Emails == {"a@x", "b@x"}

\* Passwords: the one every request of the model registers and logs in
\* with, and the one a password reset sets.
Passwords == {"p", "q"}

\* A user row as UserModel.create builds it: not yet active, in the group
\* register_user looked up.
UserRow(i, email) ==
    [id |-> i, email |-> email, is_active |-> FALSE, group |-> UserGroupEnum[1],
     password |-> req.password]

\* A token row: the string generated for it, and whether expires_at has
\* passed.
TokenRow(i, uid, tok) == [id |-> i, user_id |-> uid, token |-> tok, expired |-> FALSE]

MaxRowId(rows) == IF rows = {} THEN 0 ELSE CHOOSE n \in {r.id : r \in rows} :
                                               \A r \in rows : r.id <= n

\* Committed content before the first request.
InitAccountStores ==
    { [EmptyAccounts EXCEPT !.groups = g, !.users = u] :
        g \in {{}, SeqRange(UserGroupEnum)},
        u \in {{}, {[id |-> 1, email |-> "a@x", is_active |-> TRUE, group |-> "user",
                     password |-> "p"]}} }
    \cup
    { [EmptyAccounts EXCEPT
          !.groups = SeqRange(UserGroupEnum),
          !.users = {[id |-> 1, email |-> "a@x", is_active |-> TRUE, group |-> "user",
                      password |-> "p"]},
          !.activation_tokens = {TokenRow(1, 1, 1)}] }

\* The largest token string held by a store.
IssuedIn(store) ==
    LET toks == {t.token : t \in store.activation_tokens \cup store.password_reset_tokens}
    IN  IF toks = {} THEN 0 ELSE CHOOSE n \in toks : \A m \in toks : m <= n

InitAccounts ==
    /\ csv = <<>>
    /\ db = EmptyStore
    /\ sess = EmptyStore
    /\ db0 = EmptyStore
    /\ inTx = FALSE
    /\ uniq = TRUE
    /\ hashOrder = "asc"
    /\ race = NoRace
    /\ run = 0
    /\ entry = "main"
    /\ pc = "accounts"
    /\ mainOutcome = "none"
    /\ seedOutcome = "none"
    /\ committedRuns = 0
    /\ log = <<>>
    /\ failure = "none"
    /\ seeded = [data |-> <<>>, ids |-> <<>>, db |-> EmptyStore]
    /\ InitSeedVars
    /\ InitResolverVars
    /\ adb \in InitAccountStores
    /\ asess = adb
    /\ apc = "idle"
    /\ endpoint = ""
    /\ user_data = ""
    /\ req = NoFields
    /\ issued = IssuedIn(adb)
    /\ token_record = 0
    /\ status_code = 0
    /\ detail = ""
    /\ body = NoFields
    /\ sent = <<>>
    /\ requests = 0
    /\ new_user = 0
    /\ afail = "none"
    /\ reqStart = [adb |-> adb, sent |-> <<>>]

\* raise HTTPException(status_code=code, detail=...)
Respond(code, det) ==
    /\ status_code' = code
    /\ detail' = det
    /\ body' = NoFields
    /\ apc' = "respond"

\* A success response with the fields b in its body.
RespondWith(code, b) ==
    /\ status_code' = code
    /\ detail' = ""
    /\ body' = b
    /\ apc' = "respond"

\* An exception that no handler of the endpoint catches: the application
\* answers 500.
Unhandled(op) ==
    /\ Respond(500, "unhandled")
    /\ afail' = IF afail = "none" THEN op ELSE afail

\* A request for endpoint ep is received on a new session.
Receive(ep, e, fields) ==
    /\ apc = "idle"
    /\ requests < MaxRequests
    /\ requests' = requests + 1
    /\ endpoint' = ep
    /\ user_data' = e
    /\ req' = fields
    /\ asess' = adb
    /\ status_code' = 0
    /\ detail' = ""
    /\ body' = NoFields
    /\ new_user' = 0
    /\ token_record' = 0
    /\ afail' = "none"
    /\ reqStart' = [adb |-> adb, sent |-> sent]
    /\ UNCHANGED <<pipelineVars, issued, adb, sent>>

\* POST /register/ is received with the email e.
RegisterStart(e) ==
    /\ Receive("register", e, [password |-> "p"])
    /\ apc' = "find_user"

\* RegisterFindUser without the test of existing_user.
RegisterFindUserNoCheck ==
    /\ apc = "find_user"
    /\ \/ /\ apc' = "find_group"
          /\ UNCHANGED <<status_code, detail, body, afail>>
       \/ Unhandled("select_user")
    /\ UNCHANGED <<pipelineVars, endpoint, req, issued, token_record, adb, asess, user_data, sent, requests, new_user, reqStart>>

\* select(UserModel).where(UserModel.email == user_data.email); 409 when a
\* user is found.
RegisterFindUser ==
    /\ apc = "find_user"
    /\ \/ /\ \E u \in asess.users : u.email = user_data
          /\ Respond(409, "conflict")
          /\ UNCHANGED afail
       \/ /\ ~\E u \in asess.users : u.email = user_data
          /\ apc' = "find_group"
          /\ UNCHANGED <<status_code, detail, body, afail>>
       \/ Unhandled("select_user")
    /\ UNCHANGED <<pipelineVars, endpoint, req, issued, token_record, adb, asess, user_data, sent, requests, new_user, reqStart>>

\* select(UserGroupModel).where(UserGroupModel.name == UserGroupEnum.USER);
\* 500 when the group is missing.
RegisterFindGroup ==
    /\ apc = "find_group"
    /\ \/ /\ UserGroupEnum[1] \notin asess.groups
          /\ Respond(500, "no_group")
          /\ UNCHANGED afail
       \/ /\ UserGroupEnum[1] \in asess.groups
          /\ apc' = "flush"
          /\ UNCHANGED <<status_code, detail, body, afail>>
       \/ Unhandled("select_group")
    /\ UNCHANGED <<pipelineVars, endpoint, req, issued, token_record, adb, asess, user_data, sent, requests, new_user, reqStart>>

\* RegisterFlush with a commit in place of the flush.
RegisterFlushCommits ==
    /\ apc = "flush"
    /\ \/ /\ asess' = [asess EXCEPT !.users =
                         @ \cup {UserRow(MaxRowId(asess.users) + 1, user_data)}]
          /\ adb' = [adb EXCEPT !.users =
                         @ \cup {UserRow(MaxRowId(asess.users) + 1, user_data)}]
          /\ new_user' = MaxRowId(asess.users) + 1
          /\ apc' = "commit"
          /\ UNCHANGED afail
       \/ /\ afail' = "flush"
          /\ apc' = "rollback"
          /\ UNCHANGED <<adb, asess, new_user>>
    /\ UNCHANGED <<pipelineVars, endpoint, req, issued, token_record, user_data, status_code, detail, body, sent, requests, reqStart>>

\* new_user = UserModel.create(...); db.add(new_user); await db.flush()
RegisterFlush ==
    /\ apc = "flush"
    /\ \/ /\ asess' = [asess EXCEPT !.users =
                         @ \cup {UserRow(MaxRowId(asess.users) + 1, user_data)}]
          /\ new_user' = MaxRowId(asess.users) + 1
          /\ apc' = "commit"
          /\ UNCHANGED afail
       \/ /\ afail' = "flush"
          /\ apc' = "rollback"
          /\ UNCHANGED <<asess, new_user>>
    /\ UNCHANGED <<pipelineVars, endpoint, req, issued, token_record, adb, user_data, status_code, detail, body, sent, requests,
                   reqStart>>

\* The session content once the activation token of new_user is added.
WithActivationToken ==
    [asess EXCEPT !.activation_tokens =
        @ \cup {TokenRow(MaxRowId(asess.activation_tokens) + 1, new_user, issued + 1)}]

\* db.add(ActivationTokenModel(user_id=new_user.id)); await db.commit()
RegisterCommit ==
    /\ apc = "commit"
    /\ \/ /\ asess' = WithActivationToken
          /\ adb' = WithActivationToken
          /\ issued' = issued + 1
          /\ apc' = "refresh"
          /\ UNCHANGED afail
       \/ /\ afail' = "commit"
          /\ apc' = "rollback"
          /\ UNCHANGED <<adb, asess, issued>>
    /\ UNCHANGED <<pipelineVars, endpoint, req, token_record, user_data, status_code, detail, body, sent, requests, new_user,
                   reqStart>>

\* await db.refresh(new_user)
RegisterRefresh ==
    /\ apc = "refresh"
    /\ \/ /\ apc' = "email"
          /\ UNCHANGED afail
       \/ /\ afail' = "refresh"
          /\ apc' = "rollback"
    /\ UNCHANGED <<pipelineVars, endpoint, req, issued, token_record, adb, asess, user_data, status_code, detail, body, sent, requests,
                   new_user, reqStart>>

\* except SQLAlchemyError: await db.rollback(); raise HTTPException(500)
RegisterRollback ==
    /\ apc = "rollback"
    /\ \/ /\ asess' = adb
          /\ Respond(500, "creation")
          /\ UNCHANGED afail
       \/ /\ Unhandled("rollback")
          /\ UNCHANGED asess
    /\ UNCHANGED <<pipelineVars, endpoint, req, issued, token_record, adb, user_data, sent, requests, new_user, reqStart>>

\* else: await email_sender.send_activation_email(...); return the user.
\* The sender raises BaseEmailError when the mail cannot be delivered, and
\* also when smtp.quit() fails after smtp.sendmail() has handed the
\* message over (the third outcome here and in the other three sends).
RegisterSendEmail ==
    /\ apc = "email"
    /\ \/ /\ sent' = Append(sent, [kind |-> "activation", to |-> user_data])
          /\ Respond(201, "")
          /\ UNCHANGED afail
       \/ /\ Unhandled("email")
          /\ UNCHANGED sent
       \/ /\ sent' = Append(sent, [kind |-> "activation", to |-> user_data])
          /\ Unhandled("email")
    /\ UNCHANGED <<pipelineVars, endpoint, req, issued, token_record, adb, asess, user_data, requests, new_user, reqStart>>

\* The response is sent and the session of the request is closed, which
\* discards what it has not committed.
RequestEnd ==
    /\ apc = "respond"
    /\ asess' = adb
    /\ apc' = "idle"
    /\ UNCHANGED <<pipelineVars, endpoint, req, issued, token_record, adb, user_data, status_code, detail, body, sent, requests,
                   new_user, afail, reqStart>>

\* The passing of time takes a token past its expires_at.
TokenExpires ==
    /\ apc = "idle"
    /\ requests < MaxRequests
    /\ \/ \E t \in adb.activation_tokens :
            /\ ~t.expired
            /\ adb' = [adb EXCEPT !.activation_tokens =
                           (@ \ {t}) \cup {[t EXCEPT !.expired = TRUE]}]
       \/ \E t \in adb.password_reset_tokens :
            /\ ~t.expired
            /\ adb' = [adb EXCEPT !.password_reset_tokens =
                           (@ \ {t}) \cup {[t EXCEPT !.expired = TRUE]}]
    /\ asess' = adb'
    /\ UNCHANGED <<pipelineVars, apc, endpoint, user_data, req, issued, token_record,
                   status_code, detail, body, sent, requests, new_user, afail, reqStart>>

\* POST /activate/ is received with the email e and the token t.
ActivateStart(e, t) ==
    /\ Receive("activate", e, [token |-> t])
    /\ apc' = "act_find"

\* The rows of select(ActivationTokenModel).join(UserModel).where(
\* UserModel.email == email, ActivationTokenModel.token == token).
ActivationRecords(store, email, tok) ==
    {t \in store.activation_tokens :
        /\ t.token = tok
        /\ \E u \in store.users : u.id = t.user_id /\ u.email = email}

\* token_record.user
UserOf(store, t) == CHOOSE u \in store.users : u.id = t.user_id

\* ActivateFindToken without the test of expires_at.
ActivateFindTokenNoExpiry ==
    /\ apc = "act_find"
    /\ LET recs == ActivationRecords(asess, user_data, req.token)
       IN  \/ /\ recs = {}
              /\ Respond(400, "invalid_token")
              /\ UNCHANGED afail
           \/ /\ \E t \in recs : UserOf(asess, t).is_active
              /\ Respond(400, "already_active")
              /\ UNCHANGED afail
           \/ /\ \E t \in recs : ~UserOf(asess, t).is_active
              /\ apc' = "act_commit"
              /\ UNCHANGED <<status_code, detail, body, afail>>
           \/ Unhandled("select_token")
    /\ UNCHANGED <<pipelineVars, endpoint, req, issued, token_record, adb, asess, user_data, sent,
                   requests, new_user, reqStart>>

\* activate_account: the select of token_record and the tests on it.
ActivateFindToken ==
    /\ apc = "act_find"
    /\ LET recs == ActivationRecords(asess, user_data, req.token)
       IN  \/ /\ recs = {}
              /\ Respond(400, "invalid_token")
              /\ UNCHANGED afail
           \/ /\ \E t \in recs : t.expired
              /\ apc' = "act_purge"
              /\ UNCHANGED <<status_code, detail, body, afail>>
           \/ /\ \E t \in recs : ~t.expired /\ UserOf(asess, t).is_active
              /\ Respond(400, "already_active")
              /\ UNCHANGED afail
           \/ /\ \E t \in recs : ~t.expired /\ ~UserOf(asess, t).is_active
              /\ apc' = "act_commit"
              /\ UNCHANGED <<status_code, detail, body, afail>>
           \/ Unhandled("select_token")
    /\ UNCHANGED <<pipelineVars, endpoint, req, issued, token_record, adb, asess, user_data, sent,
                   requests, new_user, reqStart>>

\* The expired token_record: await db.delete(token_record); await
\* db.commit(); then 400.
ActivatePurge ==
    /\ apc = "act_purge"
    /\ \/ /\ asess' = [asess EXCEPT !.activation_tokens =
                         @ \ ActivationRecords(asess, user_data, req.token)]
          /\ adb' = asess'
          /\ Respond(400, "invalid_token")
          /\ UNCHANGED afail
       \/ /\ Unhandled("commit")
          /\ UNCHANGED <<adb, asess>>
    /\ UNCHANGED <<pipelineVars, endpoint, req, issued, token_record, user_data, sent, requests, new_user,
                   reqStart>>

\* The store with the user of the token active and the token deleted.
Activated(store, email, tok) ==
    [store EXCEPT
        !.users = {IF \E t \in ActivationRecords(store, email, tok) : t.user_id = u.id
                   THEN [u EXCEPT !.is_active = TRUE] ELSE u : u \in store.users},
        !.activation_tokens = @ \ ActivationRecords(store, email, tok)]

\* ActivateCommit that leaves the token in place.
ActivateCommitKeepsToken ==
    /\ apc = "act_commit"
    /\ \/ /\ asess' = [asess EXCEPT !.users = Activated(asess, user_data, req.token).users]
          /\ adb' = asess'
          /\ apc' = "act_email"
          /\ UNCHANGED <<status_code, detail, body, afail>>
       \/ /\ Unhandled("commit")
          /\ UNCHANGED <<adb, asess>>
    /\ UNCHANGED <<pipelineVars, endpoint, req, issued, token_record, user_data, sent, requests, new_user,
                   reqStart>>

\* user.is_active = True; await db.delete(token_record); await db.commit()
ActivateCommit ==
    /\ apc = "act_commit"
    /\ \/ /\ asess' = Activated(asess, user_data, req.token)
          /\ adb' = asess'
          /\ apc' = "act_email"
          /\ UNCHANGED <<status_code, detail, body, afail>>
       \/ /\ Unhandled("commit")
          /\ UNCHANGED <<adb, asess>>
    /\ UNCHANGED <<pipelineVars, endpoint, req, issued, token_record, user_data, sent, requests, new_user,
                   reqStart>>

\* await email_sender.send_activation_complete_email(...); return 200
ActivateSendEmail ==
    /\ apc = "act_email"
    /\ \/ /\ sent' = Append(sent, [kind |-> "activation_complete", to |-> user_data])
          /\ Respond(200, "")
          /\ UNCHANGED afail
       \/ /\ Unhandled("email")
          /\ UNCHANGED sent
       \/ /\ sent' = Append(sent, [kind |-> "activation_complete", to |-> user_data])
          /\ Unhandled("email")
    /\ UNCHANGED <<pipelineVars, endpoint, req, issued, token_record, adb, asess, user_data, requests,
                   new_user, reqStart>>

NextAccounts ==
    \/ \E e \in Emails : RegisterStart(e)
    \/ TokenExpires
    \/ \E x \in Emails \X (0..issued) : ActivateStart(x[1], x[2])
    \/ ActivateFindToken
    \/ ActivatePurge
    \/ ActivateCommit
    \/ ActivateSendEmail
    \/ RegisterFindUser
    \/ RegisterFindGroup
    \/ RegisterFlush
    \/ RegisterCommit
    \/ RegisterRefresh
    \/ RegisterRollback
    \/ RegisterSendEmail
    \/ RequestEnd

\* Sequential requests to the account endpoints.
SpecAccounts == InitAccounts /\ [][NextAccounts]_vars

---------------------------------------------------------------------------
\* Properties of the account endpoints (checked under SpecAccounts).

\* The request being served has been answered and its session is about to
\* be closed.
Answered == apc = "respond"

\* A request of endpoint ep is being served or has just been answered.
Serving(ep) == endpoint = ep /\ apc # "idle"

\* C19: no two users share an email; a registration whose email belonged
\* to a user when it was received creates no user and no activation token,
\* sends no email, and is answered 409 unless the lookup itself failed.
C19_RegisterConflict ==
    /\ \A u, v \in adb.users : u.email = v.email => u = v
    /\ (Serving("register") /\ \E u \in reqStart.adb.users : u.email = user_data) =>
         /\ adb = reqStart.adb
         /\ asess = adb
         /\ sent = reqStart.sent
         /\ new_user = 0
         /\ Answered => status_code = IF afail = "none" THEN 409 ELSE 500

C19_Witness ==
    /\ endpoint = "register"
    /\ apc = "respond"
    /\ status_code = 409
    /\ sent # <<>>
    /\ sent[1].to = user_data
    /\ \E u \in adb.users : u.email = user_data /\ ~u.is_active

\* C20: a registration whose commit raised is answered 500, leaves the
\* committed users and activation tokens as they were, sends no email, and
\* has rolled the session back when the handler's rollback went through.
C20_RegisterCommitFailure ==
    (Serving("register") /\ afail = "commit") =>
        /\ adb = reqStart.adb
        /\ sent = reqStart.sent
        /\ apc \in {"rollback", "respond"}
        /\ Answered =>
             /\ status_code = 500
             /\ detail \in {"creation", "unhandled"}
             /\ detail = "creation" => asess = adb

C20_Witness ==
    /\ endpoint = "register"
    /\ apc = "respond"
    /\ afail = "commit"
    /\ status_code = 500
    /\ detail = "creation"
    /\ new_user # 0
    /\ asess = adb

\* The activation tokens that matched the request when it was received.
PresentedActivation == ActivationRecords(reqStart.adb, user_data, req.token)

\* C21: a registration answered 201 leaves an inactive user holding an
\* unexpired activation token; an activation presenting the email and the
\* unexpired token of an inactive user ends, unless a call fails, with 200,
\* the user active and the token deleted; token strings are never issued
\* twice, and an activation whose token matches no row (as the second one
\* with the same token) is answered 400 and changes nothing.
C21_ActivationConsumesToken ==
    /\ \A t1, t2 \in adb.activation_tokens : t1.token = t2.token => t1 = t2
    /\ \A t \in adb.activation_tokens : t.token \in 1..issued
    /\ (Serving("register") /\ Answered /\ status_code = 201) =>
         \E u \in adb.users :
             /\ u.email = user_data
             /\ ~u.is_active
             /\ \E t \in adb.activation_tokens : t.user_id = u.id /\ ~t.expired
    /\ (/\ Serving("activate")
        /\ Answered
        /\ afail = "none"
        /\ \E t \in PresentedActivation : ~t.expired /\ ~UserOf(reqStart.adb, t).is_active)
       => /\ status_code = 200
          /\ adb = Activated(reqStart.adb, user_data, req.token)
          /\ \A u \in adb.users : u.email = user_data => u.is_active
          /\ \A t \in adb.activation_tokens : t.token # req.token
    /\ (Serving("activate") /\ PresentedActivation = {}) =>
         /\ adb = reqStart.adb
         /\ sent = reqStart.sent
         /\ (Answered /\ afail = "none") => status_code = 400

C21_Witness ==
    /\ Serving("activate")
    /\ Answered
    /\ status_code = 400
    /\ req.token >= 1
    /\ Len(sent) = 2
    /\ sent[1] = [kind |-> "activation", to |-> user_data]
    /\ sent[2] = [kind |-> "activation_complete", to |-> user_data]
    /\ \E u \in adb.users : u.email = user_data /\ u.is_active

\* C22: an activation whose token matches no row of the email, or matches
\* an expired one, leaves every user as it was and is answered 400 unless
\* a call fails; a user is active only if it was active when the last
\* request was received or that request is an activation presenting an
\* unexpired token of that user.
C22_ActivationNeedsValidToken ==
    /\ (/\ Serving("activate")
        /\ \A t \in PresentedActivation : t.expired)
       => /\ adb.users = reqStart.adb.users
          /\ sent = reqStart.sent
          /\ (Answered /\ afail = "none") => status_code = 400
    /\ \A u \in adb.users :
         u.is_active =>
             \/ \E v \in reqStart.adb.users : v.id = u.id /\ v.is_active
             \/ /\ endpoint = "activate"
                /\ \E t \in PresentedActivation : ~t.expired /\ t.user_id = u.id

C22_Witness ==
    /\ Serving("activate")
    /\ Answered
    /\ status_code = 400
    /\ \E t \in PresentedActivation : t.expired /\ ~UserOf(adb, t).is_active
    /\ adb.activation_tokens = {}

---------------------------------------------------------------------------
\* Password reset: request_password_reset_token and reset_password of
\* src/routes/accounts.py.

\* A user row with the registered password.
KnownUser(i, email, active, group) ==
    [id |-> i, email |-> email, is_active |-> active, group |-> group, password |-> "p"]

\* Committed content before the first reset request: an active user alone,
\* with an inactive user, and with a reset token already issued to it.
InitResetStores ==
    { [EmptyAccounts EXCEPT !.groups = SeqRange(UserGroupEnum),
                            !.users = {KnownUser(1, "a@x", TRUE, "user")}],
      [EmptyAccounts EXCEPT !.groups = SeqRange(UserGroupEnum),
                            !.users = {KnownUser(1, "a@x", TRUE, "user"),
                                       KnownUser(2, "b@x", FALSE, "user")}],
      [EmptyAccounts EXCEPT !.groups = SeqRange(UserGroupEnum),
                            !.users = {KnownUser(1, "a@x", TRUE, "user"),
                                       KnownUser(2, "b@x", TRUE, "user")},
                            !.password_reset_tokens = {TokenRow(1, 1, 1)}] }

\* The account endpoints at rest on the committed content st.
InitEndpoints(st) ==
    /\ csv = <<>>
    /\ db = EmptyStore
    /\ sess = EmptyStore
    /\ db0 = EmptyStore
    /\ inTx = FALSE
    /\ uniq = TRUE
    /\ hashOrder = "asc"
    /\ race = NoRace
    /\ run = 0
    /\ entry = "main"
    /\ pc = "accounts"
    /\ mainOutcome = "none"
    /\ seedOutcome = "none"
    /\ committedRuns = 0
    /\ log = <<>>
    /\ failure = "none"
    /\ seeded = [data |-> <<>>, ids |-> <<>>, db |-> EmptyStore]
    /\ InitSeedVars
    /\ InitResolverVars
    /\ adb = st
    /\ asess = st
    /\ apc = "idle"
    /\ endpoint = ""
    /\ user_data = ""
    /\ req = NoFields
    /\ issued = IssuedIn(st)
    /\ token_record = 0
    /\ status_code = 0
    /\ detail = ""
    /\ body = NoFields
    /\ sent = <<>>
    /\ requests = 0
    /\ new_user = 0
    /\ afail = "none"
    /\ reqStart = [adb |-> st, sent |-> <<>>]

InitReset == \E st \in InitResetStores : InitEndpoints(st)

\* The users select(UserModel).filter_by(email=...) returns.
UsersByEmail(store, email) == {u \in store.users : u.email = email}

\* POST /password-reset/request/ is received with the email e.
ResetRequestStart(e) ==
    /\ Receive("reset_request", e, NoFields)
    /\ apc' = "rr_find"

\* ResetRequestFindUser without the test of is_active.
ResetRequestFindUserAnyUser ==
    /\ apc = "rr_find"
    /\ \/ /\ UsersByEmail(asess, user_data) = {}
          /\ Respond(200, "instructions")
          /\ UNCHANGED <<afail, new_user>>
       \/ /\ \E u \in UsersByEmail(asess, user_data) :
                new_user' = u.id
          /\ apc' = "rr_delete"
          /\ UNCHANGED <<status_code, detail, body, afail>>
       \/ /\ Unhandled("select_user")
          /\ UNCHANGED new_user
    /\ UNCHANGED <<pipelineVars, endpoint, req, issued, token_record, adb, asess, user_data,
                   sent, requests, reqStart>>

\* request_password_reset_token: the select of the user; the same message
\* is returned at once when there is no user or the user is not active.
ResetRequestFindUser ==
    /\ apc = "rr_find"
    /\ \/ /\ \A u \in UsersByEmail(asess, user_data) : ~u.is_active
          /\ Respond(200, "instructions")
          /\ UNCHANGED <<afail, new_user>>
       \/ /\ \E u \in UsersByEmail(asess, user_data) :
                /\ u.is_active
                /\ new_user' = u.id
          /\ apc' = "rr_delete"
          /\ UNCHANGED <<status_code, detail, body, afail>>
       \/ /\ Unhandled("select_user")
          /\ UNCHANGED new_user
    /\ UNCHANGED <<pipelineVars, endpoint, req, issued, token_record, adb, asess, user_data,
                   sent, requests, reqStart>>

\* ResetRequestDelete that deletes nothing.
ResetRequestDeleteNothing ==
    /\ apc = "rr_delete"
    /\ \/ /\ apc' = "rr_commit"
          /\ UNCHANGED <<asess, status_code, detail, body, afail>>
       \/ /\ Unhandled("delete")
          /\ UNCHANGED asess
    /\ UNCHANGED <<pipelineVars, endpoint, req, issued, token_record, adb, user_data, sent,
                   requests, new_user, reqStart>>

\* execute(delete(PasswordResetTokenModel).where(user_id == user.id))
ResetRequestDelete ==
    /\ apc = "rr_delete"
    /\ \/ /\ asess' = [asess EXCEPT !.password_reset_tokens =
                         {t \in @ : t.user_id # new_user}]
          /\ apc' = "rr_commit"
          /\ UNCHANGED <<status_code, detail, body, afail>>
       \/ /\ Unhandled("delete")
          /\ UNCHANGED asess
    /\ UNCHANGED <<pipelineVars, endpoint, req, issued, token_record, adb, user_data, sent,
                   requests, new_user, reqStart>>

\* ResetRequestCommit with a failure of the commit passed over.
ResetRequestCommitSwallowed ==
    /\ apc = "rr_commit"
    /\ \/ /\ asess' = [asess EXCEPT !.password_reset_tokens =
                         @ \cup {TokenRow(MaxRowId(@) + 1, new_user, issued + 1)}]
          /\ adb' = asess'
          /\ issued' = issued + 1
          /\ apc' = "rr_email"
          /\ UNCHANGED <<status_code, detail, body, afail>>
       \/ /\ apc' = "rr_email"
          /\ UNCHANGED <<adb, asess, issued, status_code, detail, body, afail>>
    /\ UNCHANGED <<pipelineVars, endpoint, req, token_record, user_data, sent, requests,
                   new_user, reqStart>>

\* db.add(PasswordResetTokenModel(user_id=user.id)); await db.commit()
ResetRequestCommit ==
    /\ apc = "rr_commit"
    /\ \/ /\ asess' = [asess EXCEPT !.password_reset_tokens =
                         @ \cup {TokenRow(MaxRowId(@) + 1, new_user, issued + 1)}]
          /\ adb' = asess'
          /\ issued' = issued + 1
          /\ apc' = "rr_email"
          /\ UNCHANGED <<status_code, detail, body, afail>>
       \/ /\ Unhandled("commit")
          /\ UNCHANGED <<adb, asess, issued>>
    /\ UNCHANGED <<pipelineVars, endpoint, req, token_record, user_data, sent, requests,
                   new_user, reqStart>>

\* await email_sender.send_password_reset_email(...); return the message
ResetRequestSendEmail ==
    /\ apc = "rr_email"
    /\ \/ /\ sent' = Append(sent, [kind |-> "password_reset", to |-> user_data])
          /\ Respond(200, "instructions")
          /\ UNCHANGED afail
       \/ /\ Unhandled("email")
          /\ UNCHANGED sent
       \/ /\ sent' = Append(sent, [kind |-> "password_reset", to |-> user_data])
          /\ Unhandled("email")
    /\ UNCHANGED <<pipelineVars, endpoint, req, issued, token_record, adb, asess, user_data,
                   requests, new_user, reqStart>>

\* POST /reset-password/complete/ is received with the email e, the token
\* t and the new password.
ResetStart(e, t) ==
    /\ Receive("reset_password", e, [token |-> t, password |-> "q"])
    /\ apc' = "rp_find_user"

\* reset_password: the select of the user; 400 unless it is active.
ResetFindUser ==
    /\ apc = "rp_find_user"
    /\ \/ /\ \A u \in UsersByEmail(asess, user_data) : ~u.is_active
          /\ Respond(400, "invalid_email_or_token")
          /\ UNCHANGED <<afail, new_user>>
       \/ /\ \E u \in UsersByEmail(asess, user_data) :
                /\ u.is_active
                /\ new_user' = u.id
          /\ apc' = "rp_find_token"
          /\ UNCHANGED <<status_code, detail, body, afail>>
       \/ /\ Unhandled("select_user")
          /\ UNCHANGED new_user
    /\ UNCHANGED <<pipelineVars, endpoint, req, issued, token_record, adb, asess, user_data,
                   sent, requests, reqStart>>

\* The reset tokens of a user.
ResetTokensOf(store, uid) == {t \in store.password_reset_tokens : t.user_id = uid}

\* ResetFindToken that answers 400 without deleting the stored token.
ResetFindTokenKeeps ==
    /\ apc = "rp_find_token"
    /\ \/ /\ ResetTokensOf(asess, new_user) = {}
          /\ Respond(400, "invalid_email_or_token")
          /\ UNCHANGED <<afail, token_record>>
       \/ /\ \E t \in ResetTokensOf(asess, new_user) :
                /\ token_record' = t.id
                /\ IF t.token # req.token \/ t.expired
                   THEN Respond(400, "invalid_email_or_token")
                   ELSE apc' = "rp_commit" /\ UNCHANGED <<status_code, detail, body>>
          /\ UNCHANGED afail
       \/ /\ Unhandled("select_token")
          /\ UNCHANGED token_record
    /\ UNCHANGED <<pipelineVars, endpoint, req, issued, adb, asess, user_data, sent,
                   requests, new_user, reqStart>>

\* reset_password: the select of token_record and the tests on it: no
\* token, another token string, an expired token.
ResetFindToken ==
    /\ apc = "rp_find_token"
    /\ \/ /\ ResetTokensOf(asess, new_user) = {}
          /\ Respond(400, "invalid_email_or_token")
          /\ UNCHANGED <<afail, token_record>>
       \/ /\ \E t \in ResetTokensOf(asess, new_user) :
                /\ token_record' = t.id
                /\ apc' = IF t.token # req.token \/ t.expired THEN "rp_purge" ELSE "rp_commit"
          /\ UNCHANGED <<status_code, detail, body, afail>>
       \/ /\ Unhandled("select_token")
          /\ UNCHANGED token_record
    /\ UNCHANGED <<pipelineVars, endpoint, req, issued, adb, asess, user_data, sent,
                   requests, new_user, reqStart>>

\* The store without the reset token of identifier i.
WithoutResetToken(store, i) ==
    [store EXCEPT !.password_reset_tokens = {t \in @ : t.id # i}]

\* s.delete(token_record); await db.commit(); then 400.
ResetPurge ==
    /\ apc = "rp_purge"
    /\ \/ /\ asess' = WithoutResetToken(asess, token_record)
          /\ adb' = asess'
          /\ Respond(400, "invalid_email_or_token")
          /\ UNCHANGED afail
       \/ /\ Unhandled("commit")
          /\ UNCHANGED <<adb, asess>>
    /\ UNCHANGED <<pipelineVars, endpoint, req, issued, token_record, user_data, sent,
                   requests, new_user, reqStart>>

\* The store with the password of user uid set to pw.
WithPassword(store, uid, pw) ==
    [store EXCEPT !.users = {IF u.id = uid THEN [u EXCEPT !.password = pw] ELSE u : u \in @}]

\* ResetCommit that commits the password before it deletes the token.
ResetCommitPasswordFirst ==
    /\ apc = "rp_commit"
    /\ \/ /\ asess' = WithoutResetToken(WithPassword(asess, new_user, req.password),
                                       token_record)
          /\ adb' = asess'
          /\ apc' = "rp_email"
          /\ UNCHANGED afail
       \/ /\ afail' = "commit"
          /\ adb' = WithPassword(adb, new_user, req.password)
          /\ apc' = "rp_rollback"
          /\ UNCHANGED asess
    /\ UNCHANGED <<pipelineVars, endpoint, req, issued, token_record, user_data, status_code,
                   detail, body, sent, requests, new_user, reqStart>>

\* try: user.password = data.password; s.delete(token_record); await
\* db.commit()
ResetCommit ==
    /\ apc = "rp_commit"
    /\ \/ /\ asess' = WithoutResetToken(WithPassword(asess, new_user, req.password),
                                       token_record)
          /\ adb' = asess'
          /\ apc' = "rp_email"
          /\ UNCHANGED afail
       \/ /\ afail' = "commit"
          /\ apc' = "rp_rollback"
          /\ UNCHANGED <<adb, asess>>
    /\ UNCHANGED <<pipelineVars, endpoint, req, issued, token_record, user_data, status_code,
                   detail, body, sent, requests, new_user, reqStart>>

\* except SQLAlchemyError: await db.rollback(); raise HTTPException(500)
ResetRollback ==
    /\ apc = "rp_rollback"
    /\ \/ /\ asess' = adb
          /\ Respond(500, "reset_failed")
          /\ UNCHANGED afail
       \/ /\ Unhandled("rollback")
          /\ UNCHANGED asess
    /\ UNCHANGED <<pipelineVars, endpoint, req, issued, token_record, adb, user_data, sent,
                   requests, new_user, reqStart>>

\* await email_sender.send_password_reset_complete_email(...); return 200
ResetSendEmail ==
    /\ apc = "rp_email"
    /\ \/ /\ sent' = Append(sent, [kind |-> "password_reset_complete", to |-> user_data])
          /\ Respond(200, "")
          /\ UNCHANGED afail
       \/ /\ Unhandled("email")
          /\ UNCHANGED sent
       \/ /\ sent' = Append(sent, [kind |-> "password_reset_complete", to |-> user_data])
          /\ Unhandled("email")
    /\ UNCHANGED <<pipelineVars, endpoint, req, issued, token_record, adb, asess, user_data,
                   requests, new_user, reqStart>>

NextReset ==
    \/ \E e \in Emails : ResetRequestStart(e)
    \/ ResetRequestFindUser
    \/ ResetRequestDelete
    \/ ResetRequestCommit
    \/ ResetRequestSendEmail
    \/ \E x \in Emails \X (0..issued) : ResetStart(x[1], x[2])
    \/ ResetFindUser
    \/ ResetFindToken
    \/ ResetPurge
    \/ ResetCommit
    \/ ResetRollback
    \/ ResetSendEmail
    \/ TokenExpires
    \/ RequestEnd

\* Sequential password-reset requests and completions.
SpecReset == InitReset /\ [][NextReset]_vars

---------------------------------------------------------------------------
\* Properties of the password-reset endpoints.

\* The active users that held the email of the request when it was received.
ActiveAtStart == {u \in UsersByEmail(reqStart.adb, user_data) : u.is_active}

C24_OneResetTokenPerUser ==
    /\ \A t1, t2 \in adb.password_reset_tokens :
          (t1.user_id = t2.user_id \/ t1.token = t2.token) => t1 = t2
    /\ \A t \in adb.password_reset_tokens : t.token \in 1..issued
    /\ (Serving("reset_request") /\ adb # reqStart.adb) =>
          \E t \in adb.password_reset_tokens :
              /\ ResetTokensOf(adb, new_user) = {t}
              /\ t.token = issued
              /\ ~t.expired
    /\ (Serving("reset_password") /\ Answered /\ status_code = 200) =>
          \E t \in reqStart.adb.password_reset_tokens :
              /\ ResetTokensOf(reqStart.adb, new_user) = {t}
              /\ t.token = req.token

C24_Witness ==
    /\ Serving("reset_password")
    /\ Answered
    /\ status_code = 400
    /\ req.token = 1
    /\ issued = 2
    /\ \E t \in ResetTokensOf(reqStart.adb, new_user) : t.token = 2 /\ ~t.expired
    /\ Len(sent) = 1
    /\ sent[1] = [kind |-> "password_reset", to |-> user_data]

\* C25: a completion for an active user whose stored reset token differs
\* from the presented one, or is expired, never changes a user and, unless
\* a call fails, is answered 400 with the stored token deleted.
C25_BadResetTokenDeleted ==
    (/\ Serving("reset_password")
     /\ \E u \in ActiveAtStart :
           \E t \in ResetTokensOf(reqStart.adb, u.id) : t.token # req.token \/ t.expired)
    => /\ adb.users = reqStart.adb.users
       /\ sent = reqStart.sent
       /\ (Answered /\ afail = "none") =>
             /\ status_code = 400
             /\ \A u \in ActiveAtStart : ResetTokensOf(adb, u.id) = {}

C25_Witness ==
    /\ Serving("reset_password")
    /\ Answered
    /\ status_code = 400
    /\ \E t \in ResetTokensOf(reqStart.adb, new_user) : t.token = req.token /\ t.expired
    /\ ResetTokensOf(adb, new_user) = {}
    /\ \E u \in adb.users : u.id = new_user /\ u.password = "p"

\* The committed content after the reset of the request has succeeded.
ResetDone == WithoutResetToken(WithPassword(reqStart.adb, new_user, req.password),
                               token_record)

\* C26: a completion changes the committed content only by setting the
\* password and deleting the token together; answered 200 it has done so,
\* and the presented token is held by nobody afterwards; when its commit
\* fails it is answered 500 and the password and the token are as before.
C26_ResetAtomic ==
    (Serving("reset_password") /\ token_record # 0 /\ apc # "rp_purge"
        /\ \E t \in reqStart.adb.password_reset_tokens :
              t.id = token_record /\ t.token = req.token /\ ~t.expired)
    => /\ adb \in {reqStart.adb, ResetDone}
       /\ (Answered /\ status_code = 200) =>
             /\ adb = ResetDone
             /\ \E u \in adb.users : u.id = new_user /\ u.password = req.password
             /\ \A t \in adb.password_reset_tokens : t.token # req.token
       /\ afail = "commit" =>
             /\ adb = reqStart.adb
             /\ Answered => (status_code = 500 /\ asess = adb)

C26_Witness ==
    /\ Serving("reset_password")
    /\ Answered
    /\ status_code = 500
    /\ detail = "reset_failed"
    /\ afail = "commit"
    /\ \E t \in adb.password_reset_tokens :
          t.id = token_record /\ t.token = req.token /\ t.user_id = new_user
    /\ \E u \in adb.users : u.id = new_user /\ u.password = "p"

---------------------------------------------------------------------------
\* Login and token refresh: login_user and refresh_access_token of
\* src/routes/accounts.py.  A JWT is the pair of the user_id of its payload
\* and the second it was created in: two tokens created for one user in
\* one second are the same string.

\* A user id that no user row carries.
NoSuchUser == 9

\* A row of RefreshTokenModel.
RefreshRow(i, uid, tok) == [id |-> i, user_id |-> uid, token |-> tok]

\* Committed content before the first login: an active and an inactive
\* user, without refresh tokens or with the stored token of a missing user.
InitLoginStores ==
    LET base == [EmptyAccounts EXCEPT !.groups = SeqRange(UserGroupEnum),
                                      !.users = {KnownUser(1, "a@x", TRUE, "user"),
                                                 KnownUser(2, "b@x", FALSE, "user")}]
    IN  { base,
          [base EXCEPT !.refresh_tokens = {RefreshRow(1, NoSuchUser, <<NoSuchUser, 0>>)}] }

InitLogin == \E st \in InitLoginStores : InitEndpoints(st)

\* POST /login/ is received with the email e and the password pw.
LoginStart(e, pw) ==
    /\ Receive("login", e, [password |-> pw])
    /\ apc' = "li_find"

\* LoginFindUser that tests is_active before the password.
LoginFindUserActiveFirst ==
    /\ apc = "li_find"
    /\ \/ /\ UsersByEmail(asess, user_data) = {}
          /\ Respond(401, "invalid_credentials")
          /\ UNCHANGED <<afail, new_user>>
       \/ /\ \E u \in UsersByEmail(asess, user_data) :
                IF ~u.is_active
                THEN Respond(403, "not_activated") /\ UNCHANGED new_user
                ELSE IF u.password # req.password
                THEN Respond(401, "invalid_credentials") /\ UNCHANGED new_user
                ELSE /\ new_user' = u.id
                     /\ apc' = "li_flush"
                     /\ UNCHANGED <<status_code, detail, body>>
          /\ UNCHANGED afail
       \/ /\ Unhandled("select_user")
          /\ UNCHANGED new_user
    /\ UNCHANGED <<pipelineVars, endpoint, req, issued, token_record, adb, asess, user_data,
                   sent, requests, reqStart>>

\* login_user: the select of the user, the test of the password, then the
\* test of is_active.
LoginFindUser ==
    /\ apc = "li_find"
    /\ \/ /\ UsersByEmail(asess, user_data) = {}
          /\ Respond(401, "invalid_credentials")
          /\ UNCHANGED <<afail, new_user>>
       \/ /\ \E u \in UsersByEmail(asess, user_data) :
                IF u.password # req.password
                THEN Respond(401, "invalid_credentials") /\ UNCHANGED new_user
                ELSE IF ~u.is_active
                THEN Respond(403, "not_activated") /\ UNCHANGED new_user
                ELSE /\ new_user' = u.id
                     /\ apc' = "li_flush"
                     /\ UNCHANGED <<status_code, detail, body>>
          /\ UNCHANGED afail
       \/ /\ Unhandled("select_user")
          /\ UNCHANGED new_user
    /\ UNCHANGED <<pipelineVars, endpoint, req, issued, token_record, adb, asess, user_data,
                   sent, requests, reqStart>>

\* jwt_manager.create_refresh_token, RefreshTokenModel.create, db.add and
\* db.flush: the token is created in the second of the previous one or in
\* a later second; the flush can raise.
LoginFlush ==
    /\ apc = "li_flush"
    /\ \E n \in {issued, issued + 1} \ {0} :
          /\ issued' = n
          /\ \/ /\ token_record' = MaxRowId(asess.refresh_tokens) + 1
                /\ asess' = [asess EXCEPT !.refresh_tokens =
                               @ \cup {RefreshRow(token_record', new_user, <<new_user, n>>)}]
                /\ apc' = "li_commit"
                /\ UNCHANGED afail
             \/ /\ afail' = "flush"
                /\ apc' = "li_rollback"
                /\ UNCHANGED <<asess, token_record>>
    /\ UNCHANGED <<pipelineVars, endpoint, req, adb, user_data, status_code, detail, body,
                   sent, requests, new_user, reqStart>>

\* await db.commit(); jwt_manager.create_access_token; return both tokens
LoginCommit ==
    /\ apc = "li_commit"
    /\ \/ /\ adb' = asess
          /\ \E t \in asess.refresh_tokens :
                /\ t.id = token_record
                /\ RespondWith(201, [access_token |-> [user_id |-> new_user],
                                     refresh_token |-> t.token])
          /\ UNCHANGED afail
       \/ /\ afail' = "commit"
          /\ apc' = "li_rollback"
          /\ UNCHANGED <<adb, status_code, detail, body>>
    /\ UNCHANGED <<pipelineVars, endpoint, req, issued, token_record, asess, user_data, sent,
                   requests, new_user, reqStart>>

\* except SQLAlchemyError: await db.rollback(); raise HTTPException(500)
LoginRollback ==
    /\ apc = "li_rollback"
    /\ \/ /\ asess' = adb
          /\ Respond(500, "processing")
          /\ UNCHANGED afail
       \/ /\ Unhandled("rollback")
          /\ UNCHANGED asess
    /\ UNCHANGED <<pipelineVars, endpoint, req, issued, token_record, adb, user_data, sent,
                   requests, new_user, reqStart>>

\* The refresh tokens a client can present: of a user or of no user,
\* created in any second so far.
PresentableTokens == {1, NoSuchUser} \X (0..issued)

\* POST /refresh/ is received with the token tok, which the JWT manager
\* will decode (ok) or reject as expired or malformed.
RefreshStart(tok, ok) ==
    /\ Receive("refresh", "", [refresh_token |-> tok, decodes |-> ok])
    /\ apc' = "rf_decode"

\* try: decode_refresh_token(...) except BaseSecurityError: 400
RefreshDecode ==
    /\ apc = "rf_decode"
    /\ IF req.decodes
       THEN /\ new_user' = req.refresh_token[1]
            /\ apc' = "rf_find_token"
            /\ UNCHANGED <<status_code, detail, body>>
       ELSE /\ Respond(400, "token_error")
            /\ UNCHANGED new_user
    /\ UNCHANGED <<pipelineVars, endpoint, req, issued, token_record, adb, asess, user_data,
                   sent, requests, afail, reqStart>>

\* The rows select(RefreshTokenModel).filter_by(token=...) returns.
RefreshRecords(store, tok) == {t \in store.refresh_tokens : t.token = tok}

\* RefreshFindToken that goes on without a stored row.
RefreshFindTokenNoCheck ==
    /\ apc = "rf_find_token"
    /\ \/ /\ token_record' = IF RefreshRecords(asess, req.refresh_token) = {} THEN 0
                             ELSE (CHOOSE t \in RefreshRecords(asess, req.refresh_token) : TRUE).id
          /\ apc' = "rf_find_user"
          /\ UNCHANGED <<status_code, detail, body, afail>>
       \/ /\ Unhandled("select_token")
          /\ UNCHANGED token_record
    /\ UNCHANGED <<pipelineVars, endpoint, req, issued, adb, asess, user_data, sent,
                   requests, new_user, reqStart>>

\* refresh_access_token: the select of the stored token; 401 without one.
RefreshFindToken ==
    /\ apc = "rf_find_token"
    /\ \/ /\ RefreshRecords(asess, req.refresh_token) = {}
          /\ Respond(401, "token_not_found")
          /\ UNCHANGED <<afail, token_record>>
       \/ /\ \E t \in RefreshRecords(asess, req.refresh_token) : token_record' = t.id
          /\ apc' = "rf_find_user"
          /\ UNCHANGED <<status_code, detail, body, afail>>
       \/ /\ Unhandled("select_token")
          /\ UNCHANGED token_record
    /\ UNCHANGED <<pipelineVars, endpoint, req, issued, adb, asess, user_data, sent,
                   requests, new_user, reqStart>>

\* refresh_access_token: the select of the user of the payload; 404
\* without one, else 200 with a new access token for that user_id.
RefreshFindUser ==
    /\ apc = "rf_find_user"
    /\ \/ /\ \A u \in asess.users : u.id # new_user
          /\ Respond(404, "user_not_found")
          /\ UNCHANGED afail
       \/ /\ \E u \in asess.users : u.id = new_user
          /\ RespondWith(200, [access_token |-> [user_id |-> new_user]])
          /\ UNCHANGED afail
       \/ Unhandled("select_user")
    /\ UNCHANGED <<pipelineVars, endpoint, req, issued, token_record, adb, asess, user_data,
                   sent, requests, new_user, reqStart>>

NextLogin ==
    \/ \E x \in Emails \X Passwords : LoginStart(x[1], x[2])
    \/ LoginFindUser
    \/ LoginFlush
    \/ LoginCommit
    \/ LoginRollback
    \/ \E x \in PresentableTokens \X BOOLEAN : RefreshStart(x[1], x[2])
    \/ RefreshDecode
    \/ RefreshFindToken
    \/ RefreshFindUser
    \/ RequestEnd

\* Sequential logins and token refreshes.
SpecLogin == InitLogin /\ [][NextLogin]_vars

---------------------------------------------------------------------------
\* Properties of login and token refresh.

\* The users of the email of the request whose password is the presented one.
Authenticated == {u \in UsersByEmail(reqStart.adb, user_data) : u.password = req.password}

C28_RefreshOrder ==
    Serving("refresh") =>
       /\ adb = reqStart.adb
       /\ asess = adb
       /\ sent = reqStart.sent
       /\ (Answered /\ afail = "none") =>
             /\ status_code =
                   IF ~req.decodes THEN 400
                   ELSE IF RefreshRecords(adb, req.refresh_token) = {} THEN 401
                   ELSE IF \A u \in adb.users : u.id # req.refresh_token[1] THEN 404
                   ELSE 200
             /\ status_code = 200 => body = [access_token |-> [user_id |-> req.refresh_token[1]]]

C28_Witness ==
    /\ Serving("refresh")
    /\ Answered
    /\ status_code = 404
    /\ req.decodes
    /\ RefreshRecords(adb, req.refresh_token) # {}
    /\ \E t \in adb.refresh_tokens : t.user_id = 1

---------------------------------------------------------------------------
\* Profile creation: create_profile of src/routes/profiles.py.  An avatar
\* uploaded to the storage is recorded in sent with kind "upload".

\* A row of UserProfileModel.
ProfileRow(i, uid) == [id |-> i, user_id |-> uid, avatar |-> <<"avatars", uid>>]

\* Committed content before the first request: an active regular user, an
\* inactive regular user and an active admin, the first with or without a
\* profile.
InitProfileStores ==
    LET base == [EmptyAccounts EXCEPT !.groups = SeqRange(UserGroupEnum),
                                      !.users = {KnownUser(1, "a@x", TRUE, "user"),
                                                 KnownUser(2, "b@x", FALSE, "user"),
                                                 KnownUser(3, "c@x", TRUE, "admin")}]
    IN  { base, [base EXCEPT !.profiles = {ProfileRow(1, 1)}] }

InitProfiles == \E st \in InitProfileStores : InitEndpoints(st)

\* The user ids an access token can carry.
TokenUsers == {1, 3, NoSuchUser}

\* The user ids of the path.
PathUsers == {1, 2, 3}

\* POST /users/{uid}/profile/ is received with an access token whose
\* payload names tok and which the JWT manager will decode (ok) or reject.
ProfileStart(uid, tok, ok) ==
    /\ Receive("create_profile", "", [user_id |-> uid, token_user_id |-> tok, decodes |-> ok])
    /\ apc' = "pf_decode"

\* ProfileDecode that never asks for the group of the token's user.
ProfileDecodeAnyOwner ==
    /\ apc = "pf_decode"
    /\ IF req.decodes
       THEN /\ apc' = "pf_user"
            /\ UNCHANGED <<status_code, detail, body>>
       ELSE Respond(401, "token_error")
    /\ UNCHANGED <<pipelineVars, endpoint, req, issued, token_record, adb, asess, user_data,
                   sent, requests, new_user, afail, reqStart>>

\* try: decode_access_token(token) except BaseSecurityError: 401; then the
\* test user_id != token_user_id
ProfileDecode ==
    /\ apc = "pf_decode"
    /\ IF req.decodes
       THEN /\ apc' = IF req.user_id # req.token_user_id THEN "pf_group" ELSE "pf_user"
            /\ UNCHANGED <<status_code, detail, body>>
       ELSE Respond(401, "token_error")
    /\ UNCHANGED <<pipelineVars, endpoint, req, issued, token_record, adb, asess, user_data,
                   sent, requests, new_user, afail, reqStart>>

\* The names select(UserGroupModel).join(UserModel).where(UserModel.id ==
\* uid) returns.
GroupsOf(store, uid) == {u.group : u \in {v \in store.users : v.id = uid}} \cap store.groups

\* The token's user may create the profile of another user.
MayEditOthers(store, uid) == GroupsOf(store, uid) # {} /\ UserGroupEnum[1] \notin GroupsOf(store, uid)

\* create_profile: the select of the group of the token's user; 403
\* without a group or with the group USER.
ProfileCheckGroup ==
    /\ apc = "pf_group"
    /\ \/ /\ ~MayEditOthers(asess, req.token_user_id)
          /\ Respond(403, "no_permission")
          /\ UNCHANGED afail
       \/ /\ MayEditOthers(asess, req.token_user_id)
          /\ apc' = "pf_user"
          /\ UNCHANGED <<status_code, detail, body, afail>>
       \/ Unhandled("select_group")
    /\ UNCHANGED <<pipelineVars, endpoint, req, issued, token_record, adb, asess, user_data,
                   sent, requests, new_user, reqStart>>

\* create_profile: the select of the user of the path; 401 unless active.
ProfileFindUser ==
    /\ apc = "pf_user"
    /\ \/ /\ \A u \in asess.users : u.id = req.user_id => ~u.is_active
          /\ Respond(401, "not_found_or_inactive")
          /\ UNCHANGED <<afail, new_user>>
       \/ /\ \E u \in asess.users :
                /\ u.id = req.user_id
                /\ u.is_active
                /\ new_user' = u.id
          /\ apc' = "pf_profile"
          /\ UNCHANGED <<status_code, detail, body, afail>>
       \/ /\ Unhandled("select_user")
          /\ UNCHANGED new_user
    /\ UNCHANGED <<pipelineVars, endpoint, req, issued, token_record, adb, asess, user_data,
                   sent, requests, reqStart>>

\* The profiles of a user.
ProfilesOf(store, uid) == {p \in store.profiles : p.user_id = uid}

\* ProfileFindExisting without the test of existing_profile.
ProfileFindExistingNoCheck ==
    /\ apc = "pf_profile"
    /\ \/ /\ apc' = "pf_upload"
          /\ UNCHANGED <<status_code, detail, body, afail>>
       \/ Unhandled("select_profile")
    /\ UNCHANGED <<pipelineVars, endpoint, req, issued, token_record, adb, asess, user_data,
                   sent, requests, new_user, reqStart>>

\* create_profile: the select of the profile of the user; 400 with one.
ProfileFindExisting ==
    /\ apc = "pf_profile"
    /\ \/ /\ ProfilesOf(asess, new_user) # {}
          /\ Respond(400, "profile_exists")
          /\ UNCHANGED afail
       \/ /\ ProfilesOf(asess, new_user) = {}
          /\ apc' = "pf_upload"
          /\ UNCHANGED <<status_code, detail, body, afail>>
       \/ Unhandled("select_profile")
    /\ UNCHANGED <<pipelineVars, endpoint, req, issued, token_record, adb, asess, user_data,
                   sent, requests, new_user, reqStart>>

\* ProfileUpload that goes on to the insert after a failed upload.
ProfileUploadSwallowed ==
    /\ apc = "pf_upload"
    /\ \/ /\ sent' = Append(sent, [kind |-> "upload", to |-> new_user])
          /\ apc' = "pf_commit"
          /\ UNCHANGED <<status_code, detail, body, afail>>
       \/ /\ afail' = "upload"
          /\ apc' = "pf_commit"
          /\ UNCHANGED <<sent, status_code, detail, body>>
    /\ UNCHANGED <<pipelineVars, endpoint, req, issued, token_record, adb, asess, user_data,
                   requests, new_user, reqStart>>

\* try: await s3_client.upload_file(...) except S3FileUploadError: 500
ProfileUpload ==
    /\ apc = "pf_upload"
    /\ \/ /\ sent' = Append(sent, [kind |-> "upload", to |-> new_user])
          /\ apc' = "pf_commit"
          /\ UNCHANGED <<status_code, detail, body, afail>>
       \/ /\ afail' = "upload"
          /\ Respond(500, "upload_failed")
          /\ UNCHANGED sent
    /\ UNCHANGED <<pipelineVars, endpoint, req, issued, token_record, adb, asess, user_data,
                   requests, new_user, reqStart>>

\* db.add(new_profile); await db.commit(), outside any try
ProfileCommit ==
    /\ apc = "pf_commit"
    /\ \/ /\ token_record' = MaxRowId(asess.profiles) + 1
          /\ asess' = [asess EXCEPT !.profiles = @ \cup {ProfileRow(token_record', new_user)}]
          /\ adb' = asess'
          /\ apc' = "pf_refresh"
          /\ UNCHANGED <<status_code, detail, body, afail>>
       \/ /\ Unhandled("commit")
          /\ UNCHANGED <<adb, asess, token_record>>
    /\ UNCHANGED <<pipelineVars, endpoint, req, issued, user_data, sent, requests, new_user,
                   reqStart>>

\* await db.refresh(new_profile); get_file_url; return the profile (201)
ProfileRefresh ==
    /\ apc = "pf_refresh"
    /\ \/ /\ RespondWith(201, [id |-> token_record, user_id |-> new_user])
          /\ UNCHANGED afail
       \/ Unhandled("refresh")
    /\ UNCHANGED <<pipelineVars, endpoint, req, issued, token_record, adb, asess, user_data,
                   sent, requests, new_user, reqStart>>

NextProfiles ==
    \/ \E x \in PathUsers \X TokenUsers \X BOOLEAN : ProfileStart(x[1], x[2], x[3])
    \/ ProfileDecode
    \/ ProfileCheckGroup
    \/ ProfileFindUser
    \/ ProfileFindExisting
    \/ ProfileUpload
    \/ ProfileCommit
    \/ ProfileRefresh
    \/ RequestEnd

\* Sequential create_profile requests.
SpecProfiles == InitProfiles /\ [][NextProfiles]_vars

---------------------------------------------------------------------------
\* Properties of create_profile.

\* C29: a request adds a profile only for the user of its path and only
\* when its token decodes and names that user or a user whose group is not
\* USER; a decoded token of another user that has no group or the group
\* USER changes nothing, uploads nothing and is answered 403 unless the
\* select fails.
C29_ProfileOwnerOrStaff ==
    Serving("create_profile") =>
       /\ adb.profiles # reqStart.adb.profiles =>
             /\ req.decodes
             /\ \A p \in adb.profiles \ reqStart.adb.profiles : p.user_id = req.user_id
             /\ \/ req.token_user_id = req.user_id
                \/ MayEditOthers(reqStart.adb, req.token_user_id)
       /\ (/\ req.decodes
           /\ req.token_user_id # req.user_id
           /\ ~MayEditOthers(reqStart.adb, req.token_user_id))
          => /\ adb = reqStart.adb
             /\ sent = reqStart.sent
             /\ (Answered /\ afail = "none") => status_code = 403

C29_Witness ==
    /\ Serving("create_profile")
    /\ Answered
    /\ status_code = 403
    /\ req.token_user_id = 1
    /\ req.user_id = 3
    /\ ProfilesOf(adb, 3) = {}
    /\ Len(sent) = 1
    /\ sent[1] = [kind |-> "upload", to |-> 1]

\* The request passes the checks that precede the look-up of the profile.
ProfileAdmitted ==
    /\ req.decodes
    /\ req.token_user_id = req.user_id \/ MayEditOthers(reqStart.adb, req.token_user_id)

\* C30: no user has two profiles; a request for a user that has a profile
\* adds no row and uploads nothing, and is answered 400 when it passes the
\* checks before the look-up and no call fails.
C30_OneProfilePerUser ==
    /\ \A p1, p2 \in adb.profiles : p1.user_id = p2.user_id => p1 = p2
    /\ (Serving("create_profile") /\ ProfilesOf(reqStart.adb, req.user_id) # {}) =>
          /\ adb = reqStart.adb
          /\ sent = reqStart.sent
          /\ (Answered /\ afail = "none" /\ ProfileAdmitted) => status_code = 400

C30_Witness ==
    /\ Serving("create_profile")
    /\ Answered
    /\ status_code = 400
    /\ Len(sent) = 1
    /\ sent[1] = [kind |-> "upload", to |-> req.user_id]
    /\ ProfilesOf(adb, req.user_id) # {}

\* The statement of C30 without the checks that precede the look-up: every
\* request for a user that has a profile is answered 400 unless a call
\* fails.
C30_AlwaysAnswered400 ==
    (/\ Serving("create_profile")
     /\ ProfilesOf(reqStart.adb, req.user_id) # {}
     /\ Answered
     /\ afail = "none")
    => status_code = 400

\* The user of the path was missing or inactive when the request was received.
TargetUnavailable == \A u \in reqStart.adb.users : u.id = req.user_id => ~u.is_active

---------------------------------------------------------------------------
\* A direct call of seed() on a session its caller has already used.

\* The identifier of the rows the caller has added without committing.
PendingId == 99

\* What the caller left uncommitted on the session: nothing, a genre that
\* the file names too, or a user group.
PendingChanges ==
    { EmptyStore,
      [EmptyStore EXCEPT !["Genre"] = {[id |-> PendingId, key |-> Str("A")]}],
      [EmptyStore EXCEPT !["UserGroup"] = {[id |-> PendingId, key |-> "admin"]}] }

InitSeed ==
    /\ csv \in Datasets
    /\ db \in {EmptyStore, [EmptyStore EXCEPT !["UserGroup"] = GroupRows]}
    /\ \E p \in PendingChanges :
          /\ sess = [t \in Tables |-> db[t] \cup p[t]]
          /\ inTx = (p # EmptyStore)
    /\ db0 = db
    /\ uniq \in BOOLEAN
    /\ hashOrder = "asc"
    /\ race = NoRace
    /\ run = 1
    /\ entry = "seed"
    /\ pc = "seed_begin"
    /\ mainOutcome = "none"
    /\ seedOutcome = "none"
    /\ committedRuns = 0
    /\ log = <<>>
    /\ failure = "none"
    /\ seeded = [data |-> <<>>, ids |-> <<>>, db |-> db]
    /\ InitSeedVars
    /\ InitResolverVars
    /\ InitAccountVars

\* seed() has returned or raised to its caller.
SeedCallEnds ==
    /\ entry = "seed"
    /\ pc \in {"seed_returned", "seed_raised"}
    /\ mainOutcome' = IF pc = "seed_returned" THEN "returned" ELSE "raised"
    /\ pc' = "done"
    /\ UNCHANGED <<csv, db, sess, inTx, constVars, accountVars, seeded, run, entry,
                   seedOutcome, committedRuns, log, failure, seedVars, resolverVars>>

NextSeed ==
    \/ SeedResetTx
    \/ SeedUserGroupsCount
    \/ SeedUserGroupsInsert
    \/ SeedUserGroupsFlush
    \/ PreprocessCsv
    \/ PrepareReferenceData
    \/ ResolverEnter
    \/ ResolverLookup
    \/ ResolverCompute
    \/ ResolverInsert
    \/ ResolverFlush
    \/ ResolverRequery
    \/ ResolverReturn
    \/ InsertMovies
    \/ PrepareAssociations
    \/ BulkInsertEmpty
    \/ BulkInsertChunk
    \/ BulkInsertFlush
    \/ Commit
    \/ SeedCallEnds

\* One call of seed() on a used session.
SpecSeed == InitSeed /\ [][NextSeed]_vars

\* C32: a row the caller left uncommitted is never committed, and while
\* the session still shows one, no operation but the rollback has been
\* issued by seed().
C32_StaleTransactionDiscarded ==
    \A t \in Tables :
       /\ \A r \in db[t] : r.id # PendingId
       /\ (\E r \in sess[t] : r.id = PendingId) =>
             \A j \in 1..Len(log) : log[j].op = "rollback"

C32_Witness ==
    /\ entry = "seed"
    /\ seedOutcome = "returned"
    /\ log[1].op = "rollback"
    /\ db["Movie"] # {}
    /\ db["Genre"] # {}

---------------------------------------------------------------------------
\* Further properties of the seeding runs.

\* The run has inserted the user groups on its session.
GroupsInsertedByRun ==
    \E j \in 1..Len(log) : log[j].op = "insert" /\ log[j].table = "UserGroup"

\* C33: the committed user groups change only in the commit that persists
\* the movies; a run that inserted user groups and then failed leaves the
\* committed user groups as they were before it.
C33_UserGroupsCommitWithMovies ==
    pc # "harness" =>
       /\ db["UserGroup"] = seeded.db["UserGroup"]
       /\ db["UserGroup"] # db0["UserGroup"] =>
             /\ committedRuns >= 1
             /\ db["Movie"] # db0["Movie"]
       /\ (GroupsInsertedByRun /\ seedOutcome # "returned") => db["UserGroup"] = {}
       /\ (GroupsInsertedByRun /\ failure # "none") =>
             /\ seedOutcome # "returned"
             /\ db = seeded.db

C33_Witness ==
    /\ pc = "seed_raised"
    /\ failure = "fault"
    /\ GroupsInsertedByRun
    /\ movie_ids # <<>>
    /\ sess["UserGroup"] # {}
    /\ db["UserGroup"] = {}

---------------------------------------------------------------------------
\* _prepare_associations on mappings that may lack tokens of the data.

\* A mapping from the names in ks to rows carrying them.
MappingOver(ks) ==
    [t \in ks |-> [id |-> CHOOSE i \in 1..Len(ListOfSet(ks)) : ListOfSet(ks)[i] = t,
                   key |-> t]]

\* The DataFrames of the datasets whose dates parse.
NormalizedData == {Preprocess(d) : d \in {x \in Datasets : ~PreprocessRaises(x)}}

\* seed() at the call of _prepare_associations, with mappings that hold
\* any part of the tokens of the data.
InitAssoc ==
    /\ csv = <<>>
    /\ db = EmptyStore
    /\ sess = db
    /\ db0 = db
    /\ inTx = TRUE
    /\ uniq = TRUE
    /\ hashOrder = "asc"
    /\ race = NoRace
    /\ run = 1
    /\ entry = "seed"
    /\ pc = "assoc"
    /\ mainOutcome = "none"
    /\ seedOutcome = "none"
    /\ committedRuns = 0
    /\ log = <<>>
    /\ failure = "none"
    /\ seeded = [data |-> <<>>, ids |-> <<>>, db |-> db]
    /\ data \in NormalizedData
    /\ movie_ids = [i \in 1..Len(data) |-> i]
    /\ \E gk \in SUBSET TokensOfColumn(data, "genre") :
       \E ak \in SUBSET TokensOfColumn(data, "crew") :
       \E lk \in SUBSET TokensOfColumn(data, "orig_lang") :
          maps = [k \in SeqRange(RefOrder) |->
                     IF k = "Genre" THEN MappingOver(gk)
                     ELSE IF k = "Actor" THEN MappingOver(ak)
                     ELSE IF k = "Language" THEN MappingOver(lk)
                     ELSE MappingOver(SeqRange(Countries(data)))]
    /\ assoc = <<>>
    /\ bk = 0
    /\ bi = 0
    /\ InitResolverVars
    /\ InitAccountVars

NextAssoc ==
    \/ PrepareAssociations
    \/ SeedCallEnds

\* One call of _prepare_associations.
SpecAssoc == InitAssoc /\ [][NextAssoc]_vars

\* The column and the mapping of the k-th association set.
AssocSource == << [col |-> "genre", kind |-> "Genre"],
                  [col |-> "crew", kind |-> "Actor"],
                  [col |-> "orig_lang", kind |-> "Language"] >>

\* The pieces of a field between commas, trimmed.
TrimmedPieces(s) == [j \in 1..Len(Split(s)) |-> Strip(Split(s)[j])]

\* A non-empty trimmed piece of the data is absent from its mapping.
TokenMissing ==
    \E k \in 1..Len(AssocSource) : \E i \in 1..Len(data) :
        \E t \in SeqRange(TrimmedPieces(data[i][AssocSource[k].col])) :
            t # <<>> /\ t \notin DOMAIN maps[AssocSource[k].kind]

\* The number of non-empty trimmed pieces of column col in rows i..Len(d).
RECURSIVE NonEmptyPieces(_, _, _)
NonEmptyPieces(d, col, i) ==
    IF i > Len(d) THEN 0
    ELSE Cardinality({j \in 1..Len(TrimmedPieces(d[i][col])) :
                         TrimmedPieces(d[i][col])[j] # <<>>})
         + NonEmptyPieces(d, col, i + 1)

\* C34: when a non-empty trimmed token is absent from its mapping the call
\* fails with a lookup error and builds nothing; otherwise each set holds
\* one row per non-empty trimmed piece, each for a token of its movie's
\* field, and none for an empty piece.
C34_MissingTokenIsFatal ==
    pc # "assoc" =>
       /\ TokenMissing <=> failure = "lookup"
       /\ TokenMissing => (seedOutcome = "raised" /\ assoc = <<>>)
       /\ ~TokenMissing =>
             /\ pc = "bulk"
             /\ \A k \in 1..Len(AssocSource) :
                   /\ Len(assoc[k]) = NonEmptyPieces(data, AssocSource[k].col, 1)
                   /\ \A r \in SeqRange(assoc[k]) :
                         \E i \in 1..Len(data) :
                            \E t \in SeqRange(TrimmedPieces(data[i][AssocSource[k].col])) :
                               /\ t # <<>>
                               /\ r.movie_id = movie_ids[i]
                               /\ r.ref_id = maps[AssocSource[k].kind][t].id

C34_Witness ==
    /\ pc = "seed_raised"
    /\ failure = "lookup"
    /\ DOMAIN maps["Genre"] # {}
    /\ \E i \in 1..Len(data) :
          \E t \in SeqRange(TrimmedPieces(data[i].genre)) :
              t # <<>> /\ t \notin DOMAIN maps["Genre"]
    /\ \E i \in 1..Len(data) : <<>> \in SeqRange(TrimmedPieces(data[i].genre))

\* The values an insert of the resolver carries.
InsertedKeys(o) == {o.arg[i].key : i \in 1..Len(o.arg)}

\* C35: in the log of a run every insert of reference rows is the last
\* operation or is followed at once by the flush of its collection; on one
\* collection no insert follows a select that follows an insert, and every
\* value a select asks for after an insert was in an insert whose flush
\* precedes that select.
C35_FlushBeforeRequery ==
    pc # "harness" =>
       /\ \A j \in 1..Len(log) :
             (log[j].op = "insert" /\ log[j].table \in RefTables /\ j < Len(log))
             => (log[j + 1].op = "flush" /\ log[j + 1].table = log[j].table)
       /\ \A t \in RefTables :
             LET ops == OpsOn(t)
             IN  \A j \in 1..Len(ops) :
                    (ops[j].op = "select" /\ \E i \in 1..(j - 1) : ops[i].op = "insert")
                    => /\ \A k \in (j + 1)..Len(ops) : ops[k].op = "select"
                       /\ \A v \in SeqRange(ops[j].arg) :
                             \E i \in 1..(j - 2) :
                                /\ ops[i].op = "insert"
                                /\ v \in InsertedKeys(ops[i])
                                /\ ops[i + 1].op = "flush"

C35_Witness ==
    /\ pc = "ref"
    /\ rpc = "return"
    /\ LET ops == OpsOn(r_model)
       IN  /\ Len(ops) = 8
           /\ ops[3].op = "insert"
           /\ ops[4].op = "flush"
           /\ ops[5].op = "insert"
           /\ ops[6].op = "flush"
           /\ ops[7].op = "select"
           /\ ops[8].op = "select"

---------------------------------------------------------------------------
\* Two invocations of main() at the same time, each on its own session,
\* against one store.  A row of the store is the collection, the unique
\* key and the invocation that inserted it.

Racers == {1, 2}

RaceRow(t, k, p) == [table |-> t, key |-> k, by |-> p]

\* The DataFrame both invocations read.
RaceData == Preprocess(csv)

\* The keys of the movie rows seed() inserts.
RaceMovieKeys == {<<RaceData[i].names, RaceData[i].date_x>> : i \in 1..Len(RaceData)}

\* The rows of collection t an invocation sees: the committed ones and its
\* own.
RaceView(p, t) == {r \in race.store \cup race.proc[p].pending : r.table = t}

InitRace ==
    /\ csv \in {DatasetScenario, DatasetSparse}
    /\ db = EmptyStore
    /\ sess = db
    /\ db0 = db
    /\ inTx = FALSE
    /\ uniq \in BOOLEAN
    /\ hashOrder = "asc"
    /\ race = [store |-> {},
               proc |-> [p \in Racers |-> [pc |-> "idle", pending |-> {}, outcome |-> "none"]]]
    /\ run = 0
    /\ entry = "main"
    /\ pc = "race"
    /\ mainOutcome = "none"
    /\ seedOutcome = "none"
    /\ committedRuns = 0
    /\ log = <<>>
    /\ failure = "none"
    /\ seeded = [data |-> <<>>, ids |-> <<>>, db |-> db]
    /\ InitSeedVars
    /\ InitResolverVars
    /\ InitAccountVars

raceFrame == <<csv, db, sess, inTx, db0, uniq, hashOrder, run, entry, pc, mainOutcome,
               seedOutcome, committedRuns, log, failure, seeded, seedVars, resolverVars,
               accountVars>>

\* The position of invocation p becomes q.
RaceMove(p, q) == race' = [race EXCEPT !.proc[p].pc = q]

\* async with get_db_contextmanager() as db_session
RaceStart(p) ==
    /\ race.proc[p].pc = "idle"
    /\ RaceMove(p, "check")
    /\ UNCHANGED raceFrame

\* if not await seeder.is_db_populated(): ... else: skip
RaceCheck(p) ==
    /\ race.proc[p].pc = "check"
    /\ IF RaceView(p, "Movie") # {}
       THEN race' = [race EXCEPT !.proc[p].pc = "done", !.proc[p].outcome = "skipped"]
       ELSE RaceMove(p, "resolve")
    /\ UNCHANGED raceFrame

\* _seed_user_groups and _prepare_reference_data: the values its session
\* does not find are inserted on it.
RaceResolve(p) ==
    /\ race.proc[p].pc = "resolve"
    /\ race' = [race EXCEPT
          !.proc[p].pc = "movies",
          !.proc[p].pending =
              @ \cup UNION {{RaceRow(t, k, p) : k \in SeqRange(CandidatesOf(t, RaceData))
                                                     \ {r.key : r \in RaceView(p, t)}}
                             : t \in RefTables}]
    /\ UNCHANGED raceFrame

\* RaceInsertMovies that leaves out the movies the store already holds.
RaceInsertMoviesIfAbsent(p) ==
    /\ race.proc[p].pc = "movies"
    /\ race' = [race EXCEPT
          !.proc[p].pc = "commit",
          !.proc[p].pending =
              @ \cup {RaceRow("Movie", k, p) :
                         k \in RaceMovieKeys \ {r.key : r \in RaceView(p, "Movie")}}]
    /\ UNCHANGED raceFrame

\* execute(insert(MovieModel).returning(MovieModel.id), movies_data) and
\* the association sets: every movie of the file, with no look-up.
RaceInsertMovies(p) ==
    /\ race.proc[p].pc = "movies"
    /\ race' = [race EXCEPT
          !.proc[p].pc = "commit",
          !.proc[p].pending = @ \cup {RaceRow("Movie", k, p) : k \in RaceMovieKeys}]
    /\ UNCHANGED raceFrame

\* A row of rows carries the unique key of a committed row.
RaceConflict(rows) ==
    \E r \in rows : \E s \in race.store : s.table = r.table /\ s.key = r.key

\* await self._db_session.commit(): with the unique keys declared, rows
\* that repeat a committed key make the invocation fail.
RaceCommit(p) ==
    /\ race.proc[p].pc = "commit"
    /\ IF uniq /\ RaceConflict(race.proc[p].pending)
       THEN race' = [race EXCEPT !.proc[p].pc = "done", !.proc[p].outcome = "raised",
                                 !.proc[p].pending = {}]
       ELSE race' = [race EXCEPT !.store = @ \cup race.proc[p].pending,
                                 !.proc[p].pc = "done", !.proc[p].outcome = "committed",
                                 !.proc[p].pending = {}]
    /\ UNCHANGED raceFrame

NextRace ==
    \/ \E p \in Racers : RaceStart(p)
    \/ \E p \in Racers : RaceCheck(p)
    \/ \E p \in Racers : RaceResolve(p)
    \/ \E p \in Racers : RaceInsertMovies(p)
    \/ \E p \in Racers : RaceCommit(p)

\* Two concurrent invocations of main().
SpecRace == InitRace /\ [][NextRace]_vars

\* C36: an invocation is past the check whenever no movie was committed
\* at its check, whatever the other has done on its session; each one that
\* commits has inserted its own row for every movie of the file; without
\* declared unique keys two commits leave every movie twice, with them the
\* second commit fails.
C36_CheckAdmitsBothRuns ==
    /\ \A p \in Racers :
          race.proc[p].outcome = "committed" =>
             \A k \in RaceMovieKeys : RaceRow("Movie", k, p) \in race.store
    /\ \A p \in Racers :
          race.proc[p].outcome = "skipped" => \E r \in race.store : r.table = "Movie"
    /\ uniq => \A r, s \in race.store : (r.table = s.table /\ r.key = s.key) => r = s
    /\ \A p, q \in Racers :
          (p # q /\ race.proc[p].outcome = "raised") => race.proc[q].outcome = "committed"

C36_Witness ==
    /\ race.store = {}
    /\ \A p \in Racers :
          /\ race.proc[p].pc = "commit"
          /\ \A k \in RaceMovieKeys : RaceRow("Movie", k, p) \in race.proc[p].pending
          /\ \E r \in race.proc[p].pending : r.table = "Genre"
    /\ {[table |-> r.table, key |-> r.key] : r \in race.proc[1].pending}
          = {[table |-> r.table, key |-> r.key] : r \in race.proc[2].pending}

---------------------------------------------------------------------------
\* Repeated invocations after a failure (checked under Spec).

\* The second invocation of the entry point, made on a store without
\* movies after a first invocation that committed nothing: the first
\* invocation failed.
RetryOfFailedRun ==
    /\ run = 2
    /\ db0["Movie"] = {}
    /\ committedRuns = (IF seedOutcome = "returned" THEN 1 ELSE 0)

\* C37: the invocation that follows a failed run is not answered by the
\* populated check, and when none of its steps fails it ends with everything
\* its input calls for committed to the store.
C37_RetrySeedsInFull ==
    RetryOfFailedRun =>
        /\ pc # "populated"
        /\ (pc = "idle" /\ failure = "none") =>
              /\ seedOutcome = "returned"
              /\ mainOutcome = "returned"
              /\ seeded.data = data
              /\ sess = db
              /\ FullySeeded(db, data, movie_ids)

C37_Witness ==
    /\ RetryOfFailedRun
    /\ pc = "idle"
    /\ failure = "none"
    /\ Cardinality(db["Movie"]) = 2
    /\ Cardinality(db["MoviesGenres"]) = 4

---------------------------------------------------------------------------
\* Lookups of a run in the mappings of its reference data (checked under
\* Spec).

\* The four mappings of the run have been returned.
MappingsReturned == DOMAIN maps = RefTables

\* C38: no run ends on a lookup miss: once the four mappings are returned,
\* every country of the normalized rows is a key of the country mapping
\* and every non-empty trimmed piece of a genre, crew or language field is
\* a key of its mapping; the tokens split for the associations of a field
\* are the tokens extracted from it for resolution.
C38_NoLookupMiss ==
    /\ failure # "lookup"
    /\ MappingsReturned =>
          /\ \A i \in 1..Len(data) : data[i].country \in DOMAIN maps["Country"]
          /\ ~TokenMissing
    /\ \A k \in 1..Len(AssocSource) : \A i \in 1..Len(data) :
          /\ SeqRange(RowTokens(data[i][AssocSource[k].col]))
                = TokensOfField(data[i][AssocSource[k].col])
          /\ TokensOfField(data[i][AssocSource[k].col])
                \subseteq SeqRange(CandidatesOf(AssocSource[k].kind, data))

C38_Witness ==
    /\ pc = "bulk"
    /\ MappingsReturned
    /\ Len(data) >= 2
    /\ Cardinality(DOMAIN maps["Country"]) >= 2
    /\ \E i \in 1..Len(data) : \E t \in SeqRange(Split(data[i].genre)) :
          Strip(t) # t /\ Strip(t) \in DOMAIN maps["Genre"]
    /\ \E i \in 1..Len(data) : Len(RowTokens(data[i].crew)) >= 2

---------------------------------------------------------------------------
\* Notification emails of the account endpoints.

InitNotify == InitAccounts \/ InitReset

NextNotify ==
    \/ \E e \in Emails : RegisterStart(e)
    \/ RegisterFindUser
    \/ RegisterFindGroup
    \/ RegisterFlush
    \/ RegisterCommit
    \/ RegisterRefresh
    \/ RegisterRollback
    \/ RegisterSendEmail
    \/ \E x \in Emails \X (0..issued) : ActivateStart(x[1], x[2])
    \/ ActivateFindToken
    \/ ActivatePurge
    \/ ActivateCommit
    \/ ActivateSendEmail
    \/ \E e \in Emails : ResetRequestStart(e)
    \/ ResetRequestFindUser
    \/ ResetRequestDelete
    \/ ResetRequestCommit
    \/ ResetRequestSendEmail
    \/ \E x \in Emails \X (0..issued) : ResetStart(x[1], x[2])
    \/ ResetFindUser
    \/ ResetFindToken
    \/ ResetPurge
    \/ ResetCommit
    \/ ResetRollback
    \/ ResetSendEmail
    \/ TokenExpires
    \/ RequestEnd

\* Sequential requests to the four endpoints that send a notification.
SpecNotify == InitNotify /\ [][NextNotify]_vars

\* The email the current request sends after its commit.
EmailKind ==
    IF endpoint = "register" THEN "activation"
    ELSE IF endpoint = "activate" THEN "activation_complete"
    ELSE IF endpoint = "reset_request" THEN "password_reset"
    ELSE "password_reset_complete"

\* The state change of the current request is in the committed content.
ChangeCommitted ==
    IF endpoint = "register"
    THEN \E u \in adb.users \ reqStart.adb.users :
            /\ u.email = user_data
            /\ \E t \in adb.activation_tokens : t.user_id = u.id
    ELSE IF endpoint = "activate"
    THEN /\ \E u \in adb.users : u.email = user_data /\ u.is_active
         /\ \E u \in reqStart.adb.users : u.email = user_data /\ ~u.is_active
         /\ \A t \in adb.activation_tokens : t.token # req.token
    ELSE IF endpoint = "reset_request"
    THEN \E u \in adb.users :
            /\ u.email = user_data
            /\ \E t \in adb.password_reset_tokens :
                  /\ t.user_id = u.id
                  /\ \A o \in reqStart.adb.password_reset_tokens : o.token # t.token
    ELSE /\ \E u \in adb.users : u.email = user_data /\ u.password = req.password
         /\ \A t \in adb.password_reset_tokens : t.token # req.token

\* The current request has had an email accepted by the mail server.
EmailSent == sent # reqStart.sent

\* The email sender raised in the current request.
SenderRaised == afail = "email"

\* C39: a request has at most one email accepted, of the kind of its
\* endpoint and to the address of the request, and only once its state
\* change is committed; a request answered with an error has had no email
\* accepted unless that error is the 500 of the sender itself raising; and
\* when the sender raised the committed change is kept.
C39_EmailAfterCommit ==
    /\ EmailSent =>
          /\ sent = Append(reqStart.sent, [kind |-> EmailKind, to |-> user_data])
          /\ apc \in {"respond", "idle"}
          /\ ChangeCommitted
          /\ asess = adb
    /\ (apc \in {"respond", "idle"} /\ status_code >= 400 /\ ~SenderRaised) => ~EmailSent
    /\ (apc # "idle" /\ SenderRaised) =>
          /\ Answered
          /\ status_code = 500
          /\ ChangeCommitted
          /\ asess = adb

C39_Witness ==
    /\ endpoint = "reset_request"
    /\ Answered
    /\ SenderRaised
    /\ ~EmailSent
    /\ ChangeCommitted
    /\ Len(sent) = 2
    /\ sent[1].kind = "activation"
    /\ sent[2] = [kind |-> "activation_complete", to |-> user_data]

\* The reading without the exception: no request answered with an error
\* has had an email accepted.
C39_NoEmailWithError ==
    (apc \in {"respond", "idle"} /\ status_code >= 400) => ~EmailSent

====
